---- MODULE Spec2Model ----
(***************************************************************************)
(* Submission intake and review workflow of the Monad developer hub        *)
(* backend: ProjectService.SubmitProject, SubmissionService.               *)
(* UpdateSubmissionStatus / createProjectFromSubmission / GetSubmissionByID*)
(* and the gorm repositories they call, over the tables submissions,       *)
(* projects and team_members.                                              *)
(*                                                                         *)
(* Pass-through columns that no operation reads or rewrites differently    *)
(* from ProjectName (Description, PhotoLink, PlayLink, HowToPlay, the      *)
(* optional links, AdditionalNotes) are left out of the rows.              *)
(***************************************************************************)
EXTENDS Integers, Sequences, FiniteSets, TLC

(***************************************************************************)
(* Bounds of the model.                                                    *)
(***************************************************************************)
\* the wall clock runs over the milliseconds 0 .. MaxClock after ClockBase
MaxClock == 1
\* the projects_id_seq sequence is consumed at most this many times
MaxProjectSeq == 2
\* the requests that are served at the same time
MaxWorkers == 2
\* the LikeProject calls that are made
MaxLikes == 4
\* the rate limiter is watched for this many clock steps of half a minute
MaxTime == 2
\* requestsPerMinute of the rate limiter
limit == 2

(***************************************************************************)
(* Go values.                                                              *)
(***************************************************************************)
\* a nil pointer (*string, *uint, *time.Time)
Nil == <<>>
\* a non-nil pointer to v
Some(v) == <<v>>

ErrNone == ""
ErrRecordNotFound == "record not found"
ErrDuplicateProjectName == "DUPLICATE_PROJECT_NAME: Project with this name already exists"
ErrDuplicateSubmission == "DUPLICATE_SUBMISSION: Submission with this project name already exists"
ErrInvalidCategories == "INVALID_CATEGORIES: Invalid categories provided"
ErrInvalidEvent == "INVALID_EVENT: Invalid event provided"
ErrInvalidTeamMembers == "INVALID_TEAM_MEMBERS: All team members must have name and twitter"
ErrProjectNotFound == "project not found"
\* error codes of the handlers
ErrInvalidSubmissionID == "INVALID_SUBMISSION_ID"
ErrRateLimited == "RATE_LIMITED"
\* json.Unmarshal of a payload that is no array of objects
ErrUnmarshal == "json: cannot unmarshal object into Go value of type []models.TeamMemberInput"
\* the store rejects an insert that breaks a primary key or a unique index
ErrDuplicateKey == "ERROR: duplicate key value violates unique constraint (SQLSTATE 23505)"
\* the store call fails (connection lost, statement timeout)
ErrStore == "driver: bad connection"

(***************************************************************************)
(* utils: validation rules.                                                *)
(***************************************************************************)
Contains(slice, item) == \E i \in 1..Len(slice) : slice[i] = item

allowedCategories ==
    <<"DeFi", "Gaming", "AI", "Infrastructure", "Consumer", "NFT", "Stablecoins">>

ValidateCategories(categories) ==
    \A i \in 1..Len(categories) : Contains(allowedCategories, categories[i])

allowedEvents ==
    << "Mission: 1 Crazy Contract", "Mission: 2 Smart Wallet",
       "Mission: 3 DeFi Integration", "Mission: 4 NFT Marketplace",
       "Hackathon 2023", "Hackathon 2024" >>

ValidateEvent(event) == Contains(allowedEvents, event)

allowedStatuses ==
    <<"pending", "under_review", "approved", "rejected", "requires_changes">>

ValidateStatus(status) == Contains(allowedStatuses, status)

\* variant: the event is checked before the categories
validateSubmissionRequestEventFirst(req) ==
    IF ~ValidateEvent(req.Event) THEN ErrInvalidEvent
    ELSE IF ~ValidateCategories(req.Categories) THEN ErrInvalidCategories
    ELSE IF \E i \in 1..Len(req.TeamMembers) :
               req.TeamMembers[i].Name = "" \/ req.TeamMembers[i].Twitter = ""
         THEN ErrInvalidTeamMembers
    ELSE ErrNone

\* the first failing rule decides the error; "" when all rules pass
validateSubmissionRequest(req) ==
    IF ~ValidateCategories(req.Categories) THEN ErrInvalidCategories
    ELSE IF ~ValidateEvent(req.Event) THEN ErrInvalidEvent
    ELSE IF \E i \in 1..Len(req.TeamMembers) :
               req.TeamMembers[i].Name = "" \/ req.TeamMembers[i].Twitter = ""
         THEN ErrInvalidTeamMembers
    ELSE ErrNone

(***************************************************************************)
(* utils: identifier generator.                                            *)
(***************************************************************************)
charset ==
    << "A","B","C","D","E","F","G","H","I","J","K","L","M","N","O","P","Q","R",
       "S","T","U","V","W","X","Y","Z","0","1","2","3","4","5","6","7","8","9" >>

\* the results of the six rand.Intn(len(charset)) calls of one
\* generateRandomHash(6); the generator is re-seeded from the wall clock on
\* every call, so two calls can draw the same six numbers
RandDraws == { <<30, 22, 32, 20, 25, 9>>, <<0, 1, 2, 26, 27, 28>> }

generateRandomHash(draw) == [i \in 1..Len(draw) |-> charset[draw[i] + 1]]

DecimalDigits == <<"0","1","2","3","4","5","6","7","8","9">>

\* the leading decimal digits of time.Now().UnixMilli(): the clock of the
\* model counts the milliseconds after 1749035470500
ClockBaseDigits == <<"1","7","4","9","0","3","5","4","7","0","5">>

\* fmt's %d of the millisecond timestamp, digit by digit
FormatMilli(now) ==
    ClockBaseDigits \o << DecimalDigits[((now \div 10) % 10) + 1],
                          DecimalDigits[(now % 10) + 1] >>

\* fmt.Sprintf("SUB-%d-%s", timestamp, randomHash), as a string of characters
GenerateSubmissionID(now, draw) ==
    <<"S", "U", "B", "-">> \o FormatMilli(now) \o <<"-">> \o generateRandomHash(draw)

\* a character of a string is written as itself when it is ASCII; "<C3A9>" is
\* the character e-acute, whose UTF-8 encoding has the two bytes C3 A9
Utf8Len(c) == IF c = "<C3A9>" THEN 2 ELSE 1

\* len(s) of a Go string: its number of bytes
RECURSIVE ByteLen(_)
ByteLen(s) == IF Len(s) = 0 THEN 0 ELSE Utf8Len(Head(s)) + ByteLen(Tail(s))

\* strings.Split(s, "-")
RECURSIVE Split(_)
Split(s) ==
    IF \A i \in 1..Len(s) : s[i] # "-" THEN <<s>>
    ELSE LET i == CHOOSE k \in 1..Len(s) : s[k] = "-" /\ \A j \in 1..(k - 1) : s[j] # "-"
         IN  <<SubSeq(s, 1, i - 1)>> \o Split(SubSeq(s, i + 1, Len(s)))

\* variant: the timestamp part needs more than 10 bytes
ValidateSubmissionIDStrict(submissionID) ==
    LET parts == Split(submissionID)
    IN  IF Len(parts) # 3 THEN FALSE
        ELSE IF parts[1] # <<"S", "U", "B">> THEN FALSE
        ELSE IF ByteLen(parts[2]) <= 10 THEN FALSE
        ELSE IF ByteLen(parts[3]) # 6 THEN FALSE
        ELSE TRUE

ValidateSubmissionID(submissionID) ==
    LET parts == Split(submissionID)
    IN  IF Len(parts) # 3 THEN FALSE
        ELSE IF parts[1] # <<"S", "U", "B">> THEN FALSE
        ELSE IF ByteLen(parts[2]) < 10 THEN FALSE
        ELSE IF ByteLen(parts[3]) # 6 THEN FALSE
        ELSE TRUE

(***************************************************************************)
(* encoding/json of []models.TeamMemberInput, as a sequence of tokens      *)
(* <<kind, text>>.  Marshal writes the keys in field order; Unmarshal reads*)
(* that form and null, and reports every other text as an error.           *)
(***************************************************************************)
Punct(c) == <<"punct", c>>
Str(s) == <<"string", s>>

MarshalMember(m) ==
    << Punct("{"), Str("name"), Punct(":"), Str(m.Name), Punct(","),
       Str("twitter"), Punct(":"), Str(m.Twitter), Punct("}") >>

RECURSIVE MarshalMembers(_)
MarshalMembers(ms) ==
    IF Len(ms) = 0 THEN <<>>
    ELSE IF Len(ms) = 1 THEN MarshalMember(ms[1])
    ELSE MarshalMember(ms[1]) \o <<Punct(",")>> \o MarshalMembers(Tail(ms))

JSONMarshal(ms) == <<Punct("[")>> \o MarshalMembers(ms) \o <<Punct("]")>>

IsMemberObject(toks) ==
    /\ Len(toks) = 9
    /\ toks[1] = Punct("{")
    /\ toks[2] = Str("name")
    /\ toks[3] = Punct(":")
    /\ toks[4][1] = "string"
    /\ toks[5] = Punct(",")
    /\ toks[6] = Str("twitter")
    /\ toks[7] = Punct(":")
    /\ toks[8][1] = "string"
    /\ toks[9] = Punct("}")

\* the objects of a non-empty array body, or an error
RECURSIVE UnmarshalMembers(_)
UnmarshalMembers(toks) ==
    IF Len(toks) < 9 \/ ~IsMemberObject(SubSeq(toks, 1, 9))
    THEN [err |-> ErrUnmarshal, val |-> <<>>]
    ELSE LET m == [Name |-> toks[4][2], Twitter |-> toks[8][2]]
         IN  IF Len(toks) = 9 THEN [err |-> ErrNone, val |-> <<m>>]
             ELSE IF toks[10] # Punct(",") THEN [err |-> ErrUnmarshal, val |-> <<>>]
             ELSE LET rest == UnmarshalMembers(SubSeq(toks, 11, Len(toks)))
                  IN  IF rest.err # ErrNone THEN rest
                      ELSE [err |-> ErrNone, val |-> <<m>> \o rest.val]

JSONUnmarshal(toks) ==
    IF toks = <<<<"null", "null">>>> THEN [err |-> ErrNone, val |-> <<>>]
    ELSE IF Len(toks) < 2 \/ toks[1] # Punct("[") \/ toks[Len(toks)] # Punct("]")
         THEN [err |-> ErrUnmarshal, val |-> <<>>]
    ELSE IF Len(toks) = 2 THEN [err |-> ErrNone, val |-> <<>>]
    ELSE UnmarshalMembers(SubSeq(toks, 2, Len(toks) - 1))

(***************************************************************************)
(* State: the three tables, their id sequences, the wall clock and the     *)
(* outcome of the call that returned last.                                 *)
(***************************************************************************)
VARIABLES
    submissions,   \* table submissions: ID -> row (models.Submission)
    projects,      \* table projects: ID -> row (models.Project)
    teamMembers,   \* table team_members: ID -> row (models.TeamMember)
    projectSeq,    \* last value drawn from the serial sequence of projects.id
    memberSeq,     \* last value drawn from the serial sequence of team_members.id
    clock,         \* time.Now(), in milliseconds after the clock base
    last,          \* the call that returned last: operation, error, identifier
    calls,         \* per worker: the call it is running, between two store calls
    acks,          \* per project id: the LikeProject calls that returned success
    clients,       \* rateLimiter.clients: client id -> times of its recorded requests
    mu,            \* rateLimiter.mu: the worker that holds the lock, 0 when free
    admitted       \* per client: the times of the requests that allow has admitted

vars ==
    <<submissions, projects, teamMembers, projectSeq, memberSeq, clock, last, calls,
      acks, clients, mu, admitted>>
workers == <<calls, acks>>
limiter == <<clients, mu, admitted>>
store == <<submissions, projects, teamMembers, projectSeq, memberSeq>>

\* the store as one value, as the repositories see it through *gorm.DB
DB ==
    [ submissions |-> submissions, projects |-> projects,
      teamMembers |-> teamMembers, projectSeq |-> projectSeq,
      memberSeq |-> memberSeq ]

\* the store after the call is db
Commit(db) ==
    /\ submissions' = db.submissions
    /\ projects' = db.projects
    /\ teamMembers' = db.teamMembers
    /\ projectSeq' = db.projectSeq
    /\ memberSeq' = db.memberSeq

\* table t with row r stored under key k (INSERT, or UPDATE of all columns)
Put(t, k, r) == [x \in DOMAIN t \cup {k} |-> IF x = k THEN r ELSE t[x]]

(***************************************************************************)
(* repository.SubmissionRepository                                         *)
(***************************************************************************)
\* variant: the row is written as by Save, replacing a row with the same ID
CreateSubmissionUpsert(db, submission) ==
    [err |-> ErrNone,
     db |-> [db EXCEPT !.submissions = Put(@, submission.ID, submission)]]

\* variant: the insert reports success without writing the row
CreateSubmissionDropped(db, submission) == [err |-> ErrNone, db |-> db]

\* variant: a unique index on project_name
CreateSubmissionUniqueName(db, submission) ==
    IF \/ submission.ID \in DOMAIN db.submissions
       \/ \E id \in DOMAIN db.submissions :
             db.submissions[id].ProjectName = submission.ProjectName
    THEN [err |-> ErrDuplicateKey, db |-> db]
    ELSE [err |-> ErrNone,
          db |-> [db EXCEPT !.submissions = Put(@, submission.ID, submission)]]

\* db.Create: the primary key rejects a second row with the same ID
CreateSubmission(db, submission) ==
    IF submission.ID \in DOMAIN db.submissions
    THEN [err |-> ErrDuplicateKey, db |-> db]
    ELSE [err |-> ErrNone,
          db |-> [db EXCEPT !.submissions = Put(@, submission.ID, submission)]]

\* variant: a missing row is reported as a failure of the store
GetSubmissionByIDStoreError(db, submissionID) ==
    IF submissionID \in DOMAIN db.submissions
    THEN [err |-> ErrNone, found |-> <<db.submissions[submissionID]>>]
    ELSE [err |-> ErrStore, found |-> <<>>]

GetSubmissionByID(db, submissionID) ==
    IF submissionID \in DOMAIN db.submissions
    THEN [err |-> ErrNone, found |-> <<db.submissions[submissionID]>>]
    ELSE [err |-> ErrRecordNotFound, found |-> <<>>]

\* db.Save: UPDATE of every column of the row with this ID
UpdateSubmission(db, submission) ==
    [err |-> ErrNone,
     db |-> [db EXCEPT !.submissions = Put(@, submission.ID, submission)]]

\* variant: no submission is ever found by name
GetSubmissionByProjectNameBlind(db, projectName) ==
    [err |-> ErrRecordNotFound, found |-> <<>>]

GetSubmissionByProjectName(db, projectName) ==
    LET hits == {id \in DOMAIN db.submissions :
                    db.submissions[id].ProjectName = projectName}
    IN  IF hits # {}
        THEN [err |-> ErrNone, found |-> <<db.submissions[CHOOSE id \in hits : TRUE]>>]
        ELSE [err |-> ErrRecordNotFound, found |-> <<>>]

(***************************************************************************)
(* repository.ProjectRepository                                            *)
(***************************************************************************)
\* the team_members rows of a project, in primary-key order
RECURSIVE InKeyOrder(_, _)
InKeyOrder(t, keys) ==
    IF keys = {} THEN <<>>
    ELSE LET k == CHOOSE x \in keys : \A y \in keys : x <= y
         IN  <<t[k]>> \o InKeyOrder(t, keys \ {k})

MembersOf(db, id) ==
    InKeyOrder(db.teamMembers,
               {m \in DOMAIN db.teamMembers : db.teamMembers[m].ProjectID = id})

\* Preload("TeamMembers").First(&project, id)
GetProjectByID(db, id) ==
    IF id \in DOMAIN db.projects
    THEN [err |-> ErrNone, found |-> <<db.projects[id]>>, team |-> MembersOf(db, id)]
    ELSE [err |-> ErrRecordNotFound, found |-> <<>>, team |-> <<>>]

\* variant: no project is ever found by name
GetProjectByNameBlind(db, name) == [err |-> ErrRecordNotFound, found |-> <<>>]

\* variant: the statement assigns the counter instead of adding to it
IncrementLikesAssigned(db, id) ==
    IF id \in DOMAIN db.projects
    THEN [err |-> ErrNone, db |-> [db EXCEPT !.projects[id].Likes = 1]]
    ELSE [err |-> ErrNone, db |-> db]

\* UPDATE projects SET likes = likes + 1 WHERE id = ?: one statement, which
\* changes no row when there is no such project
IncrementLikes(db, id) ==
    IF id \in DOMAIN db.projects
    THEN [err |-> ErrNone, db |-> [db EXCEPT !.projects[id].Likes = @ + 1]]
    ELSE [err |-> ErrNone, db |-> db]

GetProjectByName(db, name) ==
    LET hits == {id \in DOMAIN db.projects : db.projects[id].Name = name}
    IN  IF hits # {}
        THEN [err |-> ErrNone,
              found |-> <<db.projects[CHOOSE x \in hits : \A y \in hits : x <= y]>>]
        ELSE [err |-> ErrRecordNotFound, found |-> <<>>]

\* variant: no unique index on name or submission_id
CreateProjectNoIndex(db, project) ==
    LET id == db.projectSeq + 1
        row == [project EXCEPT !.ID = id]
    IN  [err |-> ErrNone,
         db |-> [db EXCEPT !.projectSeq = id, !.projects = Put(@, id, row)],
         project |-> row]

\* db.Create: the id comes from the sequence (drawn also when the insert is
\* rejected); the unique indexes on name and submission_id reject a second
\* row with the same name or the same submission
CreateProject(db, project) ==
    LET id == db.projectSeq + 1
        row == [project EXCEPT !.ID = id]
        clash == \E p \in DOMAIN db.projects :
                    \/ db.projects[p].Name = project.Name
                    \/ /\ project.SubmissionID # Nil
                       /\ db.projects[p].SubmissionID = project.SubmissionID
    IN  IF clash
        THEN [err |-> ErrDuplicateKey, db |-> [db EXCEPT !.projectSeq = id],
              project |-> project]
        ELSE [err |-> ErrNone,
              db |-> [db EXCEPT !.projectSeq = id, !.projects = Put(@, id, row)],
              project |-> row]

\* tx.Save(&member) for each member in turn: INSERT with a fresh id when
\* member.ID is 0, UPDATE of every column otherwise
RECURSIVE SaveMembers(_, _)
SaveMembers(db, members) ==
    IF Len(members) = 0 THEN db
    ELSE LET m == members[1]
             id == IF m.ID = 0 THEN db.memberSeq + 1 ELSE m.ID
             db1 == [db EXCEPT !.memberSeq = IF m.ID = 0 THEN id ELSE @,
                               !.teamMembers = Put(@, id, [m EXCEPT !.ID = id])]
         IN  SaveMembers(db1, Tail(members))

\* one transaction: Save of the project row without its team, then Save of
\* every team member
UpdateProject(db, project, members) ==
    [err |-> ErrNone,
     db |-> SaveMembers([db EXCEPT !.projects = Put(@, project.ID, project)], members)]

(***************************************************************************)
(* services                                                                *)
(***************************************************************************)
\* the store call that fails in a run of UpdateSubmissionStatus, if any
FailPoints == {"none", "CreateProject", "UpdateProject", "UpdateSubmission"}

\* the row SubmitProject builds: status pending, every review field zero
NewSubmission(req, submissionID, now) ==
    [ ID |-> submissionID,
      ProjectName |-> req.ProjectName,
      Event |-> req.Event,
      Categories |-> req.Categories,
      TeamMembers |-> JSONMarshal(req.TeamMembers),
      Status |-> "pending",
      ReviewerID |-> Nil,
      Feedback |-> Nil,
      ChangesRequested |-> <<>>,
      SubmittedAt |-> now,
      ReviewStartedAt |-> Nil,
      ReviewedAt |-> Nil,
      PublishedAt |-> Nil,
      ApprovedProjectID |-> Nil ]

\* ProjectService.SubmitProject: error, returned identifier, generated
\* identifier (nil when the generator was not reached), store afterwards
SubmitProjectResult(db, now, req, draw) ==
    LET invalid == validateSubmissionRequest(req)
        submissionID == GenerateSubmissionID(now, draw)
        created == CreateSubmission(db, NewSubmission(req, submissionID, now))
    IN  IF invalid # ErrNone
        THEN [err |-> invalid, id |-> Nil, gen |-> Nil, db |-> db]
        ELSE IF GetProjectByName(db, req.ProjectName).err = ErrNone
        THEN [err |-> ErrDuplicateProjectName, id |-> Nil, gen |-> Nil, db |-> db]
        ELSE IF GetSubmissionByProjectName(db, req.ProjectName).err = ErrNone
        THEN [err |-> ErrDuplicateSubmission, id |-> Nil, gen |-> Nil, db |-> db]
        ELSE IF created.err # ErrNone
        THEN [err |-> created.err, id |-> Nil, gen |-> submissionID, db |-> db]
        ELSE [err |-> ErrNone, id |-> submissionID, gen |-> submissionID,
              db |-> created.db]

\* variant: the project is built without its back-reference
NewProjectUnreferenced(submission) ==
    [ ID |-> 0,
      Name |-> submission.ProjectName,
      Categories |-> submission.Categories,
      Event |-> submission.Event,
      Award |-> "",
      Likes |-> 0,
      Comments |-> 0,
      SubmissionID |-> Nil ]

\* the models.Project that createProjectFromSubmission builds
NewProject(submission) ==
    [ ID |-> 0,
      Name |-> submission.ProjectName,
      Categories |-> submission.Categories,
      Event |-> submission.Event,
      Award |-> "",
      Likes |-> 0,
      Comments |-> 0,
      SubmissionID |-> Some(submission.ID) ]

\* variant: the rows are built in reverse order
NewTeamMembersReversed(projectID, input) ==
    [ i \in 1..Len(input) |->
        [ ID |-> 0, ProjectID |-> projectID, Name |-> input[Len(input) + 1 - i].Name,
          Twitter |-> input[Len(input) + 1 - i].Twitter, Image |-> "" ] ]

\* the models.TeamMember rows built from the parsed payload
NewTeamMembers(projectID, input) ==
    [ i \in 1..Len(input) |->
        [ ID |-> 0, ProjectID |-> projectID, Name |-> input[i].Name,
          Twitter |-> input[i].Twitter, Image |-> "" ] ]

\* SubmissionService.createProjectFromSubmission: error, store afterwards and
\* the in-memory submission afterwards
createProjectFromSubmission(db, submission, fail) ==
    LET parsed == IF submission.TeamMembers # <<>>
                  THEN JSONUnmarshal(submission.TeamMembers)
                  ELSE [err |-> ErrNone, val |-> <<>>]
        created == IF fail = "CreateProject"
                   THEN [err |-> ErrStore, db |-> db, project |-> NewProject(submission)]
                   ELSE CreateProject(db, NewProject(submission))
        members == NewTeamMembers(created.project.ID, parsed.val)
        updated == IF Len(members) = 0 THEN [err |-> ErrNone, db |-> created.db]
                   ELSE IF fail = "UpdateProject"
                   THEN [err |-> ErrStore, db |-> created.db]
                   ELSE UpdateProject(created.db, created.project, members)
    IN  IF parsed.err # ErrNone
        THEN [err |-> parsed.err, db |-> db, submission |-> submission]
        ELSE IF created.err # ErrNone
        THEN [err |-> created.err, db |-> created.db, submission |-> submission]
        ELSE IF updated.err # ErrNone
        THEN [err |-> updated.err, db |-> updated.db, submission |-> submission]
        ELSE [err |-> ErrNone, db |-> updated.db,
              submission |->
                  [submission EXCEPT !.ApprovedProjectID = Some(created.project.ID)]]

\* the final s.submissionRepo.UpdateSubmission(submission)
SaveSubmission(db, submission, fail) ==
    IF fail = "UpdateSubmission" THEN [err |-> ErrStore, db |-> db]
    ELSE UpdateSubmission(db, submission)

\* variant: every under_review stamps ReviewStartedAt
StartReviewAlways(submission, now) == [submission EXCEPT !.ReviewStartedAt = Some(now)]

\* case "under_review": the first entry into review stamps ReviewStartedAt
StartReview(submission, now) ==
    IF submission.ReviewStartedAt = Nil
    THEN [submission EXCEPT !.ReviewStartedAt = Some(now)]
    ELSE submission

\* variant: ReviewedAt is stamped only while it is nil
StampReviewedOnce(submission, now) ==
    IF submission.ReviewedAt = Nil
    THEN [submission EXCEPT !.ReviewedAt = Some(now)]
    ELSE submission

\* variant: the decision stamps SubmittedAt as well
StampReviewedAndSubmitted(submission, now) ==
    [submission EXCEPT !.ReviewedAt = Some(now), !.SubmittedAt = now]

\* case "approved", "rejected", "requires_changes": ReviewedAt is stamped
StampReviewed(submission, now) == [submission EXCEPT !.ReviewedAt = Some(now)]

\* variant: only the approval of a pending submission promotes
IsFirstApprovalFromPending(status, previousStatus, submission) ==
    status = "approved" /\ previousStatus = "pending"
        /\ submission.ApprovedProjectID = Nil

\* "being approved for the first time and no project exists yet"
IsFirstApproval(status, previousStatus, submission) ==
    status = "approved" /\ previousStatus # "approved"
        /\ submission.ApprovedProjectID = Nil

\* variant: every approval stamps PublishedAt
ReviewDecisionRepublishing(db, now, submission, previousStatus, status, fail) ==
    LET stamped == StampReviewed(submission, now)
        promoted == createProjectFromSubmission(db, stamped, fail)
    IN  IF IsFirstApproval(status, previousStatus, stamped)
        THEN IF promoted.err # ErrNone
             THEN [err |-> promoted.err, db |-> promoted.db]
             ELSE SaveSubmission(promoted.db,
                                 [promoted.submission EXCEPT !.PublishedAt = Some(now)],
                                 fail)
        ELSE IF status = "approved"
        THEN SaveSubmission(db, [stamped EXCEPT !.PublishedAt = Some(now)], fail)
        ELSE SaveSubmission(db, stamped, fail)

\* variant: the submission is saved also when the promotion failed
ReviewDecisionSavingAnyway(db, now, submission, previousStatus, status, fail) ==
    LET stamped == StampReviewed(submission, now)
        promoted == createProjectFromSubmission(db, stamped, fail)
    IN  IF IsFirstApproval(status, previousStatus, stamped)
        THEN IF promoted.err # ErrNone
             THEN [err |-> promoted.err,
                   db |-> UpdateSubmission(promoted.db, stamped).db]
             ELSE SaveSubmission(promoted.db,
                                 [promoted.submission EXCEPT !.PublishedAt = Some(now)],
                                 fail)
        ELSE SaveSubmission(db, stamped, fail)

\* the switch on status for an approval, a rejection or a request for changes
ReviewDecision(db, now, submission, previousStatus, status, fail) ==
    LET stamped == StampReviewed(submission, now)
        promoted == createProjectFromSubmission(db, stamped, fail)
    IN  IF IsFirstApproval(status, previousStatus, stamped)
        THEN IF promoted.err # ErrNone
             THEN [err |-> promoted.err, db |-> promoted.db]
             ELSE SaveSubmission(promoted.db,
                                 [promoted.submission EXCEPT !.PublishedAt = Some(now)],
                                 fail)
        ELSE SaveSubmission(db, stamped, fail)

\* variant: absent feedback and an empty list of changes keep the stored values
UpdateSubmissionStatusKeepingAbsent(db, now, submissionID, status, feedback, changesRequested, reviewerID, fail) ==
    LET got == GetSubmissionByID(db, submissionID)
        previousStatus == got.found[1].Status
        submission == [got.found[1] EXCEPT
                          !.Status = status,
                          !.Feedback = IF feedback = Nil THEN @ ELSE feedback,
                          !.ChangesRequested = IF changesRequested = <<>> THEN @
                                               ELSE changesRequested,
                          !.ReviewerID = reviewerID]
    IN  IF got.err # ErrNone THEN [err |-> got.err, db |-> db]
        ELSE IF status = "under_review"
        THEN SaveSubmission(db, StartReview(submission, now), fail)
        ELSE IF status \in {"approved", "rejected", "requires_changes"}
        THEN ReviewDecision(db, now, submission, previousStatus, status, fail)
        ELSE SaveSubmission(db, submission, fail)

\* SubmissionService.UpdateSubmissionStatus: error and store afterwards
UpdateSubmissionStatus(db, now, submissionID, status, feedback, changesRequested, reviewerID, fail) ==
    LET got == GetSubmissionByID(db, submissionID)
        previousStatus == got.found[1].Status
        submission == [got.found[1] EXCEPT !.Status = status,
                                           !.Feedback = feedback,
                                           !.ChangesRequested = changesRequested,
                                           !.ReviewerID = reviewerID]
    IN  IF got.err # ErrNone THEN [err |-> got.err, db |-> db]
        ELSE IF status = "under_review"
        THEN SaveSubmission(db, StartReview(submission, now), fail)
        ELSE IF status \in {"approved", "rejected", "requires_changes"}
        THEN ReviewDecision(db, now, submission, previousStatus, status, fail)
        ELSE SaveSubmission(db, submission, fail)

\* SubmissionService.GetSubmissionByID: the response, with the payload parsed
\* (a parse error is dropped) and the project reference copied
GetSubmissionResult(db, submissionID) ==
    LET got == GetSubmissionByID(db, submissionID)
    IN  IF got.err # ErrNone
        THEN [err |-> got.err, Status |-> "", TeamMembers |-> <<>>,
              ApprovedProjectID |-> Nil]
        ELSE [err |-> ErrNone, Status |-> got.found[1].Status,
              TeamMembers |-> IF got.found[1].TeamMembers # <<>>
                              THEN JSONUnmarshal(got.found[1].TeamMembers).val
                              ELSE <<>>,
              ApprovedProjectID |-> got.found[1].ApprovedProjectID]

\* variant: the first entry of a name stays in the lookup
RECURSIVE PhotoMapFirstWins(_)
PhotoMapFirstWins(teamPhotos) ==
    IF Len(teamPhotos) = 0 THEN [x \in {} |-> x]
    ELSE LET front == PhotoMapFirstWins(SubSeq(teamPhotos, 1, Len(teamPhotos) - 1))
             teamPhoto == teamPhotos[Len(teamPhotos)]
         IN  IF /\ "memberName" \in DOMAIN teamPhoto
                /\ "photoUrl" \in DOMAIN teamPhoto
                /\ teamPhoto["photoUrl"] # ""
                /\ teamPhoto["memberName"] \notin DOMAIN front
             THEN Put(front, teamPhoto["memberName"], teamPhoto["photoUrl"])
             ELSE front

\* variant: an entry with an empty photoUrl is entered in the lookup too
RECURSIVE PhotoMapWithEmpty(_)
PhotoMapWithEmpty(teamPhotos) ==
    IF Len(teamPhotos) = 0 THEN [x \in {} |-> x]
    ELSE LET front == PhotoMapWithEmpty(SubSeq(teamPhotos, 1, Len(teamPhotos) - 1))
             teamPhoto == teamPhotos[Len(teamPhotos)]
         IN  IF /\ "memberName" \in DOMAIN teamPhoto
                /\ "photoUrl" \in DOMAIN teamPhoto
             THEN Put(front, teamPhoto["memberName"], teamPhoto["photoUrl"])
             ELSE front

\* the name -> URL lookup built from the entries in turn: an entry without
\* memberName, without photoUrl or with an empty photoUrl is skipped, a later
\* entry of a name replaces an earlier one
RECURSIVE PhotoMap(_)
PhotoMap(teamPhotos) ==
    IF Len(teamPhotos) = 0 THEN [x \in {} |-> x]
    ELSE LET front == PhotoMap(SubSeq(teamPhotos, 1, Len(teamPhotos) - 1))
             teamPhoto == teamPhotos[Len(teamPhotos)]
         IN  IF /\ "memberName" \in DOMAIN teamPhoto
                /\ "photoUrl" \in DOMAIN teamPhoto
                /\ teamPhoto["photoUrl"] # ""
             THEN Put(front, teamPhoto["memberName"], teamPhoto["photoUrl"])
             ELSE front

\* the team with the photo of every member whose name is in the lookup
WithPhotos(members, photoMap) ==
    [ i \in 1..Len(members) |->
        IF members[i].Name \in DOMAIN photoMap
        THEN [members[i] EXCEPT !.Image = photoMap[members[i].Name]]
        ELSE members[i] ]

\* variant: a submission without a linked project is reported as a missing record
UpdateProjectExtrasUnlinkedAsRecord(db, submissionID, award, teamPhotos, fail) ==
    LET got == GetSubmissionByID(db, submissionID)
        submission == got.found[1]
        loaded == GetProjectByID(db, submission.ApprovedProjectID[1])
        project == IF award # Nil
                   THEN [loaded.found[1] EXCEPT !.Award = award[1]]
                   ELSE loaded.found[1]
        team == IF Len(teamPhotos) > 0
                THEN WithPhotos(loaded.team, PhotoMap(teamPhotos))
                ELSE loaded.team
    IN  IF got.err # ErrNone THEN [err |-> got.err, db |-> db]
        ELSE IF submission.ApprovedProjectID = Nil
        THEN [err |-> ErrRecordNotFound, db |-> db]
        ELSE IF loaded.err # ErrNone THEN [err |-> ErrProjectNotFound, db |-> db]
        ELSE IF fail = "UpdateProject" THEN [err |-> ErrStore, db |-> db]
        ELSE UpdateProject(db, project, team)

\* SubmissionService.UpdateProjectExtras: error and store afterwards
UpdateProjectExtras(db, submissionID, award, teamPhotos, fail) ==
    LET got == GetSubmissionByID(db, submissionID)
        submission == got.found[1]
        loaded == GetProjectByID(db, submission.ApprovedProjectID[1])
        project == IF award # Nil
                   THEN [loaded.found[1] EXCEPT !.Award = award[1]]
                   ELSE loaded.found[1]
        team == IF Len(teamPhotos) > 0
                THEN WithPhotos(loaded.team, PhotoMap(teamPhotos))
                ELSE loaded.team
    IN  IF got.err # ErrNone THEN [err |-> got.err, db |-> db]
        ELSE IF submission.ApprovedProjectID = Nil
        THEN [err |-> ErrProjectNotFound, db |-> db]
        ELSE IF loaded.err # ErrNone THEN [err |-> ErrProjectNotFound, db |-> db]
        ELSE IF fail = "UpdateProject" THEN [err |-> ErrStore, db |-> db]
        ELSE UpdateProject(db, project, team)

(***************************************************************************)
(* Inputs.                                                                 *)
(***************************************************************************)
Alex == [Name |-> "Alex", Twitter |-> "alex_dev"]
Sarah == [Name |-> "Sarah", Twitter |-> "sarah_blockchain"]

\* two requests that pass every rule
ValidRequests ==
    { [ ProjectName |-> "MonadSwap", Categories |-> <<"DeFi">>,
        Event |-> "Mission: 1 Crazy Contract", TeamMembers |-> <<Alex, Sarah>> ],
      [ ProjectName |-> "MonadPay", Categories |-> <<"DeFi", "Infrastructure">>,
        Event |-> "Hackathon 2024", TeamMembers |-> <<Alex>> ] }

\* the first request with any combination of an unknown category, an unknown
\* event and a team member without name or without handle
Requests ==
    { [ ProjectName |-> "MonadSwap", Categories |-> c, Event |-> e, TeamMembers |-> t ] :
        c \in {<<"DeFi">>, <<"DeFi", "Metaverse">>},
        e \in {"Mission: 1 Crazy Contract", "Hackathon 2025"},
        t \in { <<Alex, Sarah>>, <<[Name |-> "", Twitter |-> "a"]>>,
                <<Alex, [Name |-> "Sarah", Twitter |-> ""]>> } }
    \cup ValidRequests

Statuses == {"pending", "under_review", "approved", "rejected", "requires_changes"}

\* feedback, requested changes and reviewer of a review request
ReviewInputs ==
    { [Feedback |-> Nil, ChangesRequested |-> <<>>, ReviewerID |-> Some(1)],
      [Feedback |-> Some("Please add a demo"), ChangesRequested |-> <<"Add a demo link">>,
       ReviewerID |-> Some(2)] }

\* a well-formed identifier that no submission has: the clock never reaches
\* millisecond 31
UnknownID == GenerateSubmissionID(31, <<30, 22, 32, 20, 25, 9>>)

\* a row written to the table before this process started, whose payload is
\* one JSON object instead of an array of objects
LegacyID == <<"S", "U", "B", "-">> \o FormatMilli(0) \o <<"-", "L", "E", "G", "A", "C", "Y">>

LegacySubmission ==
    [ NewSubmission([ ProjectName |-> "MonadSwap", Categories |-> <<"DeFi">>,
                      Event |-> "Hackathon 2023", TeamMembers |-> <<>> ],
                    LegacyID, 0)
      EXCEPT !.TeamMembers = MarshalMember(Alex) ]

EmptyTable == [x \in {} |-> x]

(***************************************************************************)
(* Actions: one per operation, run from call to return without another     *)
(* operation in between.                                                   *)
(***************************************************************************)
\* the record of a call: operation, arguments, returned error, returned
\* identifier and generated identifier (Submit), returned status
\* (GetSubmission), stored status of the submission when the call began
\* (Review), time of the call
Returned(op, arg, err, id, gen, status, was) ==
    [ op |-> op, arg |-> arg, err |-> err, id |-> id, gen |-> gen,
      status |-> status, was |-> was, at |-> clock ]

\* the stored status of a submission, "" when there is no such submission
StatusOf(submissionID) ==
    IF submissionID \in DOMAIN submissions
    THEN submissions[submissionID].Status
    ELSE ""

\* the workers that serve requests, and a worker that serves none
Workers == 1..MaxWorkers
\* c.ClientIP() of the requests
ClientIPs == {"10.0.0.1", "10.0.0.2"}
Idle == [op |-> "idle"]
NoCalls == [w \in Workers |-> Idle]

Init ==
    /\ submissions \in {EmptyTable, Put(EmptyTable, LegacyID, LegacySubmission)}
    /\ projects = EmptyTable
    /\ teamMembers = EmptyTable
    /\ projectSeq = 0
    /\ memberSeq = 0
    /\ clock = 0
    /\ last = Returned("none", <<>>, ErrNone, Nil, Nil, "", "")
    /\ calls = NoCalls
    /\ acks = EmptyTable
    /\ clients = EmptyTable
    /\ mu = 0
    /\ admitted = [c \in ClientIPs |-> <<>>]

\* time passes
Tick ==
    /\ clock < MaxClock
    /\ clock' = clock + 1
    /\ UNCHANGED <<store, last, workers, limiter>>

Submit(req, draw) ==
    LET r == SubmitProjectResult(DB, clock, req, draw)
    IN  /\ Commit(r.db)
        /\ last' = Returned("Submit", <<req>>, r.err, r.id, r.gen, "", "")
        /\ UNCHANGED <<clock, workers, limiter>>

Review(submissionID, status, in, fail) ==
    LET r == UpdateSubmissionStatus(DB, clock, submissionID, status, in.Feedback,
                                    in.ChangesRequested, in.ReviewerID, fail)
    IN  /\ r.db.projectSeq <= MaxProjectSeq
        /\ Commit(r.db)
        /\ last' = Returned("Review", <<submissionID, status, in>>, r.err, Nil, Nil, "",
                            StatusOf(submissionID))
        /\ UNCHANGED <<clock, workers, limiter>>

GetSubmission(submissionID) ==
    LET r == GetSubmissionResult(DB, submissionID)
    IN  /\ last' = Returned("GetSubmission", <<submissionID>>, r.err, Nil, Nil, r.Status, "")
        /\ UNCHANGED <<store, clock, workers, limiter>>

KnownIDs == DOMAIN submissions \cup {UnknownID}

\* the operations, with their inputs drawn from the given sets
NextWith(reqs, draws, statuses, ins, fails) ==
    \/ Tick
    \/ \E req \in reqs, draw \in draws : Submit(req, draw)
    \/ \E id \in KnownIDs, status \in statuses, in \in ins, fail \in fails :
          Review(id, status, in, fail)
    \/ \E id \in KnownIDs : GetSubmission(id)

\* intake: every request and both draws; reviews approve
Next ==
    NextWith(Requests, RandDraws, {"approved"},
             {in \in ReviewInputs : in.Feedback = Nil}, {"none"})

Spec == Init /\ [][Next]_vars

\* review: one project name, every status and every failing store call
NextReview ==
    NextWith({r \in ValidRequests : r.ProjectName = "MonadSwap"},
             {<<30, 22, 32, 20, 25, 9>>}, Statuses,
             {in \in ReviewInputs : in.Feedback # Nil}, FailPoints)

SpecReview == Init /\ [][NextReview]_vars

(***************************************************************************)
(* Concurrent requests: each worker runs one call, one store call per step.*)
(***************************************************************************)
EmptyDB ==
    [ submissions |-> EmptyTable, projects |-> EmptyTable, teamMembers |-> EmptyTable,
      projectSeq |-> 0, memberSeq |-> 0 ]

\* the store after the request has been submitted and approved at time 0
Published(db, req, draw) ==
    LET submitted == SubmitProjectResult(db, 0, req, draw)
    IN  UpdateSubmissionStatus(submitted.db, 0, submitted.id, "approved", Nil, <<>>,
                               Some(1), "none").db

\* the store after both valid requests have been submitted and approved
PublishedDB ==
    Published(Published(EmptyDB,
                        CHOOSE r \in ValidRequests : r.ProjectName = "MonadSwap",
                        <<30, 22, 32, 20, 25, 9>>),
              CHOOSE r \in ValidRequests : r.ProjectName = "MonadPay",
              <<0, 1, 2, 26, 27, 28>>)

\* the server starts on the store db
InitOn(db) ==
    /\ submissions = db.submissions
    /\ projects = db.projects
    /\ teamMembers = db.teamMembers
    /\ projectSeq = db.projectSeq
    /\ memberSeq = db.memberSeq
    /\ clock = 0
    /\ last = Returned("none", <<>>, ErrNone, Nil, Nil, "", "")
    /\ calls = NoCalls
    /\ acks = [p \in DOMAIN db.projects |-> 0]
    /\ clients = EmptyTable
    /\ mu = 0
    /\ admitted = [c \in ClientIPs |-> <<>>]

\* worker w goes on to its next store call, or returns
Goto(w, call) == calls' = [calls EXCEPT ![w] = call]
Return(w) == calls' = [calls EXCEPT ![w] = Idle]

\* the LikeProject calls made so far: returned with success, or in flight
LikesBegun ==
    Cardinality({w \in Workers : calls[w].op = "LikeProject"})
        + Cardinality({<<p, n>> \in (DOMAIN acks) \X (1..MaxLikes) : n <= acks[p]})

\* ProjectService.LikeProject up to the return of GetProjectByID
LikeProjectCheck(w, id) ==
    /\ calls[w] = Idle
    /\ LikesBegun < MaxLikes
    /\ IF GetProjectByID(DB, id).err # ErrNone
       THEN /\ last' = Returned("LikeProject", <<id>>, GetProjectByID(DB, id).err,
                                Nil, Nil, "", "")
            /\ UNCHANGED calls
       ELSE /\ Goto(w, [op |-> "LikeProject", pc |-> "IncrementLikes", id |-> id])
            /\ UNCHANGED last
    /\ UNCHANGED <<store, clock, acks, limiter>>

\* ProjectService.LikeProject: IncrementLikes and the return
LikeProjectIncrement(w) ==
    /\ calls[w].op = "LikeProject"
    /\ LET r == IncrementLikes(DB, calls[w].id)
       IN  /\ Commit(r.db)
           /\ last' = Returned("LikeProject", <<calls[w].id>>, r.err, Nil, Nil, "", "")
           /\ acks' = [acks EXCEPT ![calls[w].id] = @ + 1]
    /\ Return(w)
    /\ UNCHANGED <<clock, limiter>>

\* a project id that no project has
UnknownProjectID == MaxProjectSeq + 1

\* likes: the workers like the two published projects and an unknown one
NextLikes ==
    \/ \E w \in Workers, id \in DOMAIN projects \cup {UnknownProjectID} :
          LikeProjectCheck(w, id)
    \/ \E w \in Workers : LikeProjectIncrement(w)

SpecLikes == InitOn(PublishedDB) /\ [][NextLikes]_vars

(***************************************************************************)
(* Extras: award and team photos of a published project.                   *)
(***************************************************************************)
\* a team-photo entry: a map with the keys it was sent with
Photo(memberName, photoUrl) ==
    [k \in {"memberName", "photoUrl"} |->
        IF k = "memberName" THEN memberName ELSE photoUrl]

Awards == {Nil, Some("Winner"), Some("")}

TeamPhotoLists ==
    { <<>>,
      <<Photo("Alex", "https://x/a.png")>>,
      <<Photo("Alex", "https://x/b.png"), Photo("Sarah", "https://x/a.png")>>,
      <<Photo("Bob", "https://x/a.png")>>,
      <<Photo("Alex", "")>>,
      <<Photo("Sarah", "https://x/a.png"), Photo("Sarah", "https://x/b.png")>>,
      <<Photo("Sarah", "https://x/a.png"), Photo("Sarah", "")>>,
      <<[k \in {"memberName"} |-> "Sarah"]>>,
      <<[k \in {"photoUrl"} |-> "https://x/b.png"]>> }

\* the store after MonadSwap has been submitted and approved and MonadPay has
\* been submitted
ExtrasDB ==
    SubmitProjectResult(
        Published(EmptyDB, CHOOSE r \in ValidRequests : r.ProjectName = "MonadSwap",
                  <<30, 22, 32, 20, 25, 9>>),
        0, CHOOSE r \in ValidRequests : r.ProjectName = "MonadPay",
        <<0, 1, 2, 26, 27, 28>>).db

UpdateExtras(submissionID, award, teamPhotos, fail) ==
    LET r == UpdateProjectExtras(DB, submissionID, award, teamPhotos, fail)
    IN  /\ Commit(r.db)
        /\ last' = Returned("UpdateExtras", <<submissionID, award, teamPhotos>>, r.err,
                            Nil, Nil, "", "")
        /\ UNCHANGED <<clock, workers, limiter>>

\* the like of a project, from call to return
LikeProject(id) ==
    /\ LikesBegun < MaxLikes
    /\ LET found == GetProjectByID(DB, id)
           r == IF found.err # ErrNone THEN [err |-> found.err, db |-> DB]
                ELSE IncrementLikes(DB, id)
       IN  /\ Commit(r.db)
           /\ last' = Returned("LikeProject", <<id>>, r.err, Nil, Nil, "", "")
           /\ acks' = IF found.err # ErrNone THEN acks
                      ELSE Put(acks, id, IF id \in DOMAIN acks THEN acks[id] + 1 ELSE 1)
    /\ UNCHANGED <<clock, calls, limiter>>

NextExtras ==
    \/ \E id \in KnownIDs, award \in Awards, teamPhotos \in TeamPhotoLists,
          fail \in {"none", "UpdateProject"} :
          UpdateExtras(id, award, teamPhotos, fail)
    \/ \E id \in DOMAIN projects : LikeProject(id)

SpecExtras == InitOn(ExtrasDB) /\ [][NextExtras]_vars

(***************************************************************************)
(* Identifiers on the wire.                                                *)
(***************************************************************************)
\* the parts joined with hyphens
RECURSIVE Join(_)
Join(parts) ==
    IF Len(parts) = 1 THEN parts[1]
    ELSE parts[1] \o <<"-">> \o Join(Tail(parts))

Digits9 == <<"1", "7", "4", "9", "0", "3", "5", "4", "7">>
Hash5 == <<"4", "W", "6", "U", "Z">>

PrefixParts == { <<"S", "U", "B">>, <<"s", "u", "b">>, <<"S", "U", "B", "X">>, <<>> }

\* 0, 3, 9, 10 and 13 digits; 9 characters in 10 bytes; 10 characters in 11 bytes
TimestampParts ==
    { <<>>, <<"1", "2", "3">>, Digits9, Digits9 \o <<"0">>,
      Digits9 \o <<"0", "5", "3", "1">>,
      SubSeq(Digits9, 1, 8) \o <<"<C3A9>">>, Digits9 \o <<"<C3A9>">> }

\* 0, 2, 5, 6 and 7 characters; 5 characters in 6 bytes; 6 characters in 7 bytes
HashParts ==
    { <<>>, <<"A", "B">>, Hash5, Hash5 \o <<"J">>, Hash5 \o <<"J", "K">>,
      SubSeq(Hash5, 1, 4) \o <<"<C3A9>">>, Hash5 \o <<"<C3A9>">> }

\* path parameters with two, three and four parts: every timestamp part with
\* every hash part behind SUB, and every prefix before a well-formed rest
CandidateIDs ==
    { Join(<<<<"S", "U", "B">>, b, c>>) : b \in TimestampParts, c \in HashParts }
    \cup { Join(<<a, Digits9 \o <<"0">>, Hash5 \o <<"J">>>>) : a \in PrefixParts }
    \cup { Join(<<<<"S", "U", "B">>, b>>) : b \in TimestampParts }
    \cup { Join(<<<<"S", "U", "B">>, b, Hash5 \o <<"J">>, Hash5 \o <<"J">>>>) :
             b \in TimestampParts }

\* GET /submissions/:submissionId: the format gate, then the service
GetSubmissionStatus(submissionID) ==
    LET r == GetSubmissionResult(DB, submissionID)
    IN  /\ last' = IF ~ValidateSubmissionID(submissionID)
                   THEN Returned("GetSubmissionStatus", <<submissionID>>,
                                 ErrInvalidSubmissionID, Nil, Nil, "", "")
                   ELSE Returned("GetSubmissionStatus", <<submissionID>>, r.err, Nil, Nil,
                                 r.Status, "")
        /\ UNCHANGED <<store, clock, workers, limiter>>

NextIdentifiers ==
    \/ Tick
    \/ \E req \in {r \in ValidRequests : r.ProjectName = "MonadSwap"}, draw \in RandDraws :
          Submit(req, draw)
    \/ \E id \in CandidateIDs \cup DOMAIN submissions : GetSubmissionStatus(id)

SpecIdentifiers == Init /\ [][NextIdentifiers]_vars

(***************************************************************************)
(* The review endpoint: PUT /submissions/:submissionId/review.             *)
(***************************************************************************)
ErrInvalidReviewData == "INVALID_REVIEW_DATA"

\* the values of the oneof tag on reviewRequest.Status
reviewStatusOneOf == {"pending", "under_review", "approved", "rejected", "requires_changes"}

\* variant: the status only has to be present
BindReviewRequestAnyStatus(body) ==
    /\ body.status # ""
    /\ body.reviewerId # 0

\* c.ShouldBindJSON(&reviewRequest): required fails on the zero value
BindReviewRequest(body) ==
    /\ body.status # ""
    /\ body.status \in reviewStatusOneOf
    /\ body.reviewerId # 0

\* request bodies: the five statuses, one outside them and none, each with
\* nothing optional and reviewer 1 and with everything and reviewer 2; and an
\* approval without a reviewer
ReviewBodies ==
    { [status |-> s, feedback |-> o.feedback, changesRequested |-> o.changesRequested,
       reviewerId |-> o.reviewerId] :
        s \in reviewStatusOneOf \cup {"archived", ""},
        o \in { [feedback |-> Nil, changesRequested |-> <<>>, reviewerId |-> 1],
                [feedback |-> Some("Please add a demo"),
                 changesRequested |-> <<"Add a demo link">>, reviewerId |-> 2] } }
    \cup { [status |-> "approved", feedback |-> Nil, changesRequested |-> <<>>,
            reviewerId |-> 0] }

MalformedID == <<"S", "U", "B", "-", "1", "2", "3", "-", "A", "B">>

ReviewSubmission(submissionID, body, fail) ==
    LET r == UpdateSubmissionStatus(DB, clock, submissionID, body.status, body.feedback,
                                    body.changesRequested, Some(body.reviewerId), fail)
        answer(err) == Returned("ReviewSubmission", <<submissionID, body>>, err, Nil, Nil,
                                "", StatusOf(submissionID))
    IN  IF ~ValidateSubmissionID(submissionID)
        THEN last' = answer(ErrInvalidSubmissionID) /\ UNCHANGED <<store, clock, workers, limiter>>
        ELSE IF ~BindReviewRequest(body)
        THEN last' = answer(ErrInvalidReviewData) /\ UNCHANGED <<store, clock, workers, limiter>>
        ELSE /\ r.db.projectSeq <= MaxProjectSeq
             /\ Commit(r.db)
             /\ last' = answer(r.err)
             /\ UNCHANGED <<clock, workers, limiter>>

NextEndpoint ==
    \/ Tick
    \/ \E req \in {r \in ValidRequests : r.ProjectName = "MonadSwap"} :
          Submit(req, <<30, 22, 32, 20, 25, 9>>)
    \/ \E id \in KnownIDs \cup {MalformedID}, body \in ReviewBodies :
          ReviewSubmission(id, body, "none")

SpecEndpoint == InitOn(EmptyDB) /\ [][NextEndpoint]_vars

(***************************************************************************)
(* Concurrent submissions: SubmitProject, one store call per step.         *)
(***************************************************************************)
\* the store after MonadPay has been submitted and approved
SubmitsDB ==
    Published(EmptyDB, CHOOSE r \in ValidRequests : r.ProjectName = "MonadPay",
              <<0, 1, 2, 26, 27, 28>>)

\* SubmitProject up to the return of GetProjectByName
SubmitCheckProject(w, req) ==
    LET invalid == validateSubmissionRequest(req)
        answer(err) == Returned("Submit", <<req>>, err, Nil, Nil, "", "")
    IN  /\ calls[w] = Idle
        /\ IF invalid # ErrNone
           THEN last' = answer(invalid) /\ UNCHANGED calls
           ELSE IF GetProjectByName(DB, req.ProjectName).err = ErrNone
           THEN last' = answer(ErrDuplicateProjectName) /\ UNCHANGED calls
           ELSE /\ Goto(w, [op |-> "Submit", pc |-> "GetSubmissionByProjectName",
                            req |-> req])
                /\ UNCHANGED last
        /\ UNCHANGED <<store, clock, acks, limiter>>

\* SubmitProject: GetSubmissionByProjectName
SubmitCheckSubmission(w) ==
    /\ calls[w].op = "Submit" /\ calls[w].pc = "GetSubmissionByProjectName"
    /\ IF GetSubmissionByProjectName(DB, calls[w].req.ProjectName).err = ErrNone
       THEN /\ last' = Returned("Submit", <<calls[w].req>>, ErrDuplicateSubmission,
                                Nil, Nil, "", "")
            /\ Return(w)
       ELSE /\ Goto(w, [calls[w] EXCEPT !.pc = "CreateSubmission"])
            /\ UNCHANGED last
    /\ UNCHANGED <<store, clock, acks, limiter>>

\* SubmitProject: the identifier is generated, the row is inserted and the
\* call returns
SubmitCreate(w, draw) ==
    /\ calls[w].op = "Submit" /\ calls[w].pc = "CreateSubmission"
    /\ LET submissionID == GenerateSubmissionID(clock, draw)
           created == CreateSubmission(DB, NewSubmission(calls[w].req, submissionID, clock))
       IN  /\ Commit(created.db)
           /\ last' = Returned("Submit", <<calls[w].req>>, created.err,
                               IF created.err = ErrNone THEN submissionID ELSE Nil,
                               submissionID, "", "")
    /\ Return(w)
    /\ UNCHANGED <<clock, acks, limiter>>

NextSubmits ==
    \/ Tick
    \/ \E w \in Workers, req \in Requests : SubmitCheckProject(w, req)
    \/ \E w \in Workers : SubmitCheckSubmission(w)
    \/ \E w \in Workers, draw \in RandDraws : SubmitCreate(w, draw)

SpecSubmits == InitOn(SubmitsDB) /\ [][NextSubmits]_vars

(***************************************************************************)
(* Concurrent reviews: UpdateSubmissionStatus, one store call per step.    *)
(***************************************************************************)
\* the store after MonadSwap has been submitted
ReviewsDB ==
    SubmitProjectResult(EmptyDB, 0, CHOOSE r \in ValidRequests : r.ProjectName = "MonadSwap",
                        <<30, 22, 32, 20, 25, 9>>).db

\* UpdateSubmissionStatus from GetSubmissionByID to the first write: the
\* fields and timestamps are set on the row that was read
ReviewRead(w, submissionID, status, in) ==
    LET got == GetSubmissionByID(DB, submissionID)
        previousStatus == got.found[1].Status
        submission == [got.found[1] EXCEPT !.Status = status,
                                           !.Feedback = in.Feedback,
                                           !.ChangesRequested = in.ChangesRequested,
                                           !.ReviewerID = in.ReviewerID]
        stamped == IF status = "under_review" THEN StartReview(submission, clock)
                   ELSE IF status \in {"approved", "rejected", "requires_changes"}
                   THEN StampReviewed(submission, clock)
                   ELSE submission
        promotes == /\ status \in {"approved", "rejected", "requires_changes"}
                    /\ IsFirstApproval(status, previousStatus, stamped)
        parsed == IF stamped.TeamMembers # <<>>
                  THEN JSONUnmarshal(stamped.TeamMembers)
                  ELSE [err |-> ErrNone, val |-> <<>>]
        answer(err) == Returned("Review", <<submissionID, status, in>>, err, Nil, Nil, "",
                                StatusOf(submissionID))
        call(pc) == [op |-> "Review", pc |-> pc, arg |-> <<submissionID, status, in>>,
                     was |-> previousStatus, now |-> clock, submission |-> stamped,
                     input |-> parsed.val, project |-> NewProject(stamped)]
    IN  /\ calls[w] = Idle
        /\ IF got.err # ErrNone
           THEN last' = answer(got.err) /\ UNCHANGED calls
           ELSE IF promotes /\ parsed.err # ErrNone
           THEN last' = answer(parsed.err) /\ UNCHANGED calls
           ELSE IF promotes
           THEN Goto(w, call("CreateProject")) /\ UNCHANGED last
           ELSE Goto(w, call("UpdateSubmission")) /\ UNCHANGED last
        /\ UNCHANGED <<store, clock, acks, limiter>>

\* variant: the promotion sets the project reference only
LinkedUnpublished(call, projectID) ==
    [call.submission EXCEPT !.ApprovedProjectID = Some(projectID)]

\* the in-memory submission at the end of the promotion
Linked(call, projectID) ==
    [call.submission EXCEPT !.ApprovedProjectID = Some(projectID),
                            !.PublishedAt = Some(call.now)]

\* createProjectFromSubmission: CreateProject
ReviewCreateProject(w) ==
    /\ calls[w].op = "Review" /\ calls[w].pc = "CreateProject"
    /\ LET created == CreateProject(DB, calls[w].project)
           answer(err) == Returned("Review", calls[w].arg, err, Nil, Nil, "", calls[w].was)
       IN  /\ created.db.projectSeq <= MaxProjectSeq
           /\ Commit(created.db)
           /\ IF created.err # ErrNone
              THEN last' = answer(created.err) /\ Return(w)
              ELSE IF Len(NewTeamMembers(created.project.ID, calls[w].input)) = 0
              THEN /\ Goto(w, [calls[w] EXCEPT
                                  !.pc = "UpdateSubmission",
                                  !.project = created.project,
                                  !.submission = Linked(calls[w], created.project.ID)])
                   /\ UNCHANGED last
              ELSE /\ Goto(w, [calls[w] EXCEPT !.pc = "UpdateProject",
                                               !.project = created.project])
                   /\ UNCHANGED last
    /\ UNCHANGED <<clock, acks, limiter>>

\* createProjectFromSubmission: UpdateProject with the team members
ReviewUpdateProject(w) ==
    /\ calls[w].op = "Review" /\ calls[w].pc = "UpdateProject"
    /\ LET updated == UpdateProject(DB, calls[w].project,
                                    NewTeamMembers(calls[w].project.ID, calls[w].input))
       IN  /\ Commit(updated.db)
           /\ Goto(w, [calls[w] EXCEPT
                          !.pc = "UpdateSubmission",
                          !.submission = Linked(calls[w], calls[w].project.ID)])
    /\ UNCHANGED <<clock, last, acks, limiter>>

\* the final UpdateSubmission and the return
ReviewUpdateSubmission(w) ==
    /\ calls[w].op = "Review" /\ calls[w].pc = "UpdateSubmission"
    /\ LET saved == UpdateSubmission(DB, calls[w].submission)
       IN  /\ Commit(saved.db)
           /\ last' = Returned("Review", calls[w].arg, saved.err, Nil, Nil, "", calls[w].was)
    /\ Return(w)
    /\ UNCHANGED <<clock, acks, limiter>>

\* the reviews arrive within one millisecond
NextReviews ==
    \/ \E w \in Workers, id \in KnownIDs, status \in {"pending", "approved", "rejected"},
          in \in {i \in ReviewInputs : i.Feedback = Nil} :
          ReviewRead(w, id, status, in)
    \/ \E w \in Workers : ReviewCreateProject(w)
    \/ \E w \in Workers : ReviewUpdateProject(w)
    \/ \E w \in Workers : ReviewUpdateSubmission(w)

SpecReviews == InitOn(ReviewsDB) /\ [][NextReviews]_vars

(***************************************************************************)
(* Likes, extras and promotions together, one store call per step.         *)
(***************************************************************************)
\* UpdateProjectExtras: GetSubmissionByID
ExtrasGetSubmission(w, submissionID, award, teamPhotos) ==
    LET got == GetSubmissionByID(DB, submissionID)
        answer(err) == Returned("UpdateExtras", <<submissionID, award, teamPhotos>>, err,
                                Nil, Nil, "", "")
    IN  /\ calls[w] = Idle
        /\ IF got.err # ErrNone
           THEN last' = answer(got.err) /\ UNCHANGED calls
           ELSE IF got.found[1].ApprovedProjectID = Nil
           THEN last' = answer(ErrProjectNotFound) /\ UNCHANGED calls
           ELSE /\ Goto(w, [op |-> "UpdateExtras", pc |-> "GetProjectByID",
                            arg |-> <<submissionID, award, teamPhotos>>,
                            id |-> got.found[1].ApprovedProjectID[1]])
                /\ UNCHANGED last
        /\ UNCHANGED <<store, clock, acks, limiter>>

\* UpdateProjectExtras: GetProjectByID, then the award and the photos are set
\* on the project that was read
ExtrasGetProject(w) ==
    /\ calls[w].op = "UpdateExtras" /\ calls[w].pc = "GetProjectByID"
    /\ LET loaded == GetProjectByID(DB, calls[w].id)
           award == calls[w].arg[2]
           teamPhotos == calls[w].arg[3]
       IN  IF loaded.err # ErrNone
           THEN /\ last' = Returned("UpdateExtras", calls[w].arg, ErrProjectNotFound,
                                    Nil, Nil, "", "")
                /\ Return(w)
           ELSE /\ Goto(w, [op |-> "UpdateExtras", pc |-> "UpdateProject",
                            arg |-> calls[w].arg, id |-> calls[w].id,
                            project |-> IF award # Nil
                                        THEN [loaded.found[1] EXCEPT !.Award = award[1]]
                                        ELSE loaded.found[1],
                            team |-> IF Len(teamPhotos) > 0
                                     THEN WithPhotos(loaded.team, PhotoMap(teamPhotos))
                                     ELSE loaded.team])
                /\ UNCHANGED last
    /\ UNCHANGED <<store, clock, acks, limiter>>

\* UpdateProjectExtras: UpdateProject and the return
ExtrasUpdateProject(w) ==
    /\ calls[w].op = "UpdateExtras" /\ calls[w].pc = "UpdateProject"
    /\ LET updated == UpdateProject(DB, calls[w].project, calls[w].team)
       IN  /\ Commit(updated.db)
           /\ last' = Returned("UpdateExtras", calls[w].arg, updated.err, Nil, Nil, "", "")
    /\ Return(w)
    /\ UNCHANGED <<clock, acks, limiter>>

\* a like of a project, counted in acks also when the project was created
\* after the server started
LikeIncrement(w) ==
    /\ calls[w].op = "LikeProject"
    /\ LET r == IncrementLikes(DB, calls[w].id)
       IN  /\ Commit(r.db)
           /\ last' = Returned("LikeProject", <<calls[w].id>>, r.err, Nil, Nil, "", "")
           /\ acks' = Put(acks, calls[w].id,
                          IF calls[w].id \in DOMAIN acks THEN acks[calls[w].id] + 1 ELSE 1)
    /\ Return(w)
    /\ UNCHANGED <<clock, limiter>>

\* the workers like every stored project, set the award and a photo of every
\* stored submission's project and approve every stored submission
NextMixed ==
    \/ \E w \in Workers, id \in DOMAIN projects : LikeProjectCheck(w, id)
    \/ \E w \in Workers : LikeIncrement(w)
    \/ \E w \in Workers, id \in DOMAIN submissions :
          ExtrasGetSubmission(w, id, Some("Winner"), <<Photo("Alex", "https://x/a.png")>>)
    \/ \E w \in Workers : ExtrasGetProject(w)
    \/ \E w \in Workers : ExtrasUpdateProject(w)
    \/ \E w \in Workers, id \in DOMAIN submissions,
          in \in {i \in ReviewInputs : i.Feedback = Nil} :
          ReviewRead(w, id, "approved", in)
    \/ \E w \in Workers : ReviewCreateProject(w)
    \/ \E w \in Workers : ReviewUpdateProject(w)
    \/ \E w \in Workers : ReviewUpdateSubmission(w)

SpecMixed == InitOn(ExtrasDB) /\ [][NextMixed]_vars

(***************************************************************************)
(* Every operation, one call after the other.                              *)
(***************************************************************************)
NextAll ==
    \/ Tick
    \/ \E req \in {r \in ValidRequests : r.ProjectName = "MonadSwap"} :
          Submit(req, <<30, 22, 32, 20, 25, 9>>)
    \/ \E id \in KnownIDs, status \in Statuses, in \in {i \in ReviewInputs : i.Feedback # Nil} :
          Review(id, status, in, "none")
    \/ \E id \in KnownIDs :
          UpdateExtras(id, Some("Winner"), <<Photo("Alex", "https://x/a.png")>>, "none")
    \/ \E id \in DOMAIN projects : LikeProject(id)

SpecAll == InitOn(EmptyDB) /\ [][NextAll]_vars

(***************************************************************************)
(* middleware.RateLimit: the rate limiter, one step per statement of allow *)
(* that reads or writes the map. The clock counts half minutes here.       *)
(***************************************************************************)
\* rl.window = time.Minute, in clock steps
window == 2

\* variant: the lock is handed out while it is held
TryLockUnguarded(holder) == TRUE

\* rl.mu.Lock() returns when no worker holds the lock
TryLock(holder) == holder = 0

\* len(rl.clients[clientID]); a missing key reads as the empty slice
Recorded(clientID) ==
    IF clientID \in DOMAIN clients THEN clients[clientID] ELSE <<>>

\* the entries of requests that are younger than the window at time now
ValidRequestsAt(requests, now) ==
    SelectSeq(requests, LAMBDA requestTime : now - requestTime < window)

\* time passes
LimiterTick ==
    /\ clock < MaxTime
    /\ clock' = clock + 1
    /\ UNCHANGED <<store, last, workers, limiter>>

\* allow: rl.mu.Lock()
AllowLock(w, clientID) ==
    /\ calls[w] = Idle
    /\ TryLock(mu)
    /\ mu' = w
    /\ Goto(w, [op |-> "allow", pc |-> "Clean", clientID |-> clientID, now |-> 0])
    /\ UNCHANGED <<store, clock, last, acks, clients, admitted>>

\* allow: now := time.Now() and the old entries of the client are dropped
AllowClean(w) ==
    /\ calls[w].op = "allow" /\ calls[w].pc = "Clean"
    /\ clients' = IF calls[w].clientID \in DOMAIN clients
                  THEN Put(clients, calls[w].clientID,
                           ValidRequestsAt(clients[calls[w].clientID], clock))
                  ELSE clients
    /\ Goto(w, [calls[w] EXCEPT !.pc = "Check", !.now = clock])
    /\ UNCHANGED <<store, clock, last, acks, mu, admitted>>

\* allow: the limit is tested; at the limit the call returns false and the
\* deferred Unlock runs
AllowCheck(w) ==
    /\ calls[w].op = "allow" /\ calls[w].pc = "Check"
    /\ IF Len(Recorded(calls[w].clientID)) >= limit
       THEN /\ last' = [Returned("allow", <<calls[w].clientID>>, ErrRateLimited, Nil, Nil,
                                 "", "") EXCEPT !.at = calls[w].now]
            /\ mu' = 0
            /\ Return(w)
       ELSE /\ Goto(w, [calls[w] EXCEPT !.pc = "Append"])
            /\ UNCHANGED <<last, mu>>
    /\ UNCHANGED <<store, clock, acks, clients, admitted>>

\* allow: the request is recorded, the call returns true and the deferred
\* Unlock runs
AllowAppend(w) ==
    /\ calls[w].op = "allow" /\ calls[w].pc = "Append"
    /\ clients' = Put(clients, calls[w].clientID,
                      Append(Recorded(calls[w].clientID), calls[w].now))
    /\ admitted' = [admitted EXCEPT ![calls[w].clientID] = Append(@, calls[w].now)]
    /\ last' = [Returned("allow", <<calls[w].clientID>>, ErrNone, Nil, Nil, "", "")
                   EXCEPT !.at = calls[w].now]
    /\ mu' = 0
    /\ Return(w)
    /\ UNCHANGED <<store, clock, acks>>

NextLimiter ==
    \/ LimiterTick
    \/ \E w \in Workers, clientID \in ClientIPs : AllowLock(w, clientID)
    \/ \E w \in Workers : AllowClean(w)
    \/ \E w \in Workers : AllowCheck(w)
    \/ \E w \in Workers : AllowAppend(w)

SpecLimiter == InitOn(EmptyDB) /\ [][NextLimiter]_vars

(***************************************************************************)
(* Properties.                                                             *)
(***************************************************************************)
\* the step is one call of op (the clock stands still while a call runs)
IsCall(op) == last'.op = op /\ clock' = clock

\* some stored project, or some stored submission, has this name
ProjectNamed(name) == \E p \in DOMAIN projects : projects[p].Name = name
SubmissionNamed(name) ==
    \E id \in DOMAIN submissions : submissions[id].ProjectName = name

\* a Submit step with a request that passes every rule and whose project name
\* is free succeeds, returns an identifier no stored submission had, and stores
\* a pending submission under it
SubmitStoresPending ==
    /\ last'.err = ErrNone
    /\ last'.id # Nil
    /\ last'.id \notin DOMAIN submissions
    /\ DOMAIN submissions' = DOMAIN submissions \cup {last'.id}
    /\ submissions'[last'.id].Status = "pending"
    /\ submissions'[last'.id].ProjectName = last'.arg[1].ProjectName
    /\ GetSubmissionResult(DB', last'.id).err = ErrNone
    /\ GetSubmissionResult(DB', last'.id).Status = "pending"

UniqueValidSubmit ==
    /\ IsCall("Submit")
    /\ validateSubmissionRequest(last'.arg[1]) = ErrNone
    /\ ~ProjectNamed(last'.arg[1].ProjectName)
    /\ ~SubmissionNamed(last'.arg[1].ProjectName)

\* a GetSubmission that follows a successful Submit and asks for the returned
\* identifier answers pending
GetAfterSubmitIsPending ==
    IsCall("GetSubmission") /\ last.op = "Submit" /\ last.err = ErrNone
        /\ last'.arg[1] = last.id
    => last'.err = ErrNone /\ last'.status = "pending"

IsReview(id, status) ==
    IsCall("Review") /\ last'.arg[1] = id /\ last'.arg[2] = status
        /\ id \in DOMAIN submissions

\* names, handles and photos of a list of team_members rows, in order
TeamOf(rows) ==
    [ i \in 1..Len(rows) |->
        [Name |-> rows[i].Name, Twitter |-> rows[i].Twitter, Image |-> rows[i].Image] ]

\* the entries, each with an empty photo
WithEmptyPhoto(entries) ==
    [ i \in 1..Len(entries) |->
        [Name |-> entries[i].Name, Twitter |-> entries[i].Twitter, Image |-> ""] ]

\* C2: a successful Review with status approved on a pending submission without
\* a linked project creates exactly one project, whose team members are the
\* submission's team-member entries (same names and handles, same order, empty
\* photo), stamps published-at with the time of the call, and sets the
\* submission's project reference to the new project
C2_ApprovalCreatesProject ==
    [][ \A id \in DOMAIN submissions :
          ( /\ IsReview(id, "approved")
            /\ last'.err = ErrNone
            /\ submissions[id].Status = "pending"
            /\ submissions[id].ApprovedProjectID = Nil )
          => \E p \in DOMAIN projects' :
               /\ p \notin DOMAIN projects
               /\ DOMAIN projects' = DOMAIN projects \cup {p}
               /\ projects'[p].Name = submissions[id].ProjectName
               /\ TeamOf(MembersOf(DB', p))
                    = WithEmptyPhoto(JSONUnmarshal(submissions[id].TeamMembers).val)
               /\ \A req \in ValidRequests :
                     submissions[id].TeamMembers = JSONMarshal(req.TeamMembers)
                     => TeamOf(MembersOf(DB', p)) = WithEmptyPhoto(req.TeamMembers)
               /\ {m \in DOMAIN teamMembers' : teamMembers'[m].ProjectID = p}
                    = DOMAIN teamMembers' \ DOMAIN teamMembers
               /\ submissions'[id].PublishedAt = Some(clock)
               /\ submissions'[id].ApprovedProjectID = Some(p)
               /\ submissions'[id].Status = "approved" ]_vars

\* a pending submission with two team members has just been approved: its
\* project holds Alex and Sarah, in this order
C2_Witness ==
    /\ last.op = "Review" /\ last.err = ErrNone
    /\ last.arg[2] = "approved" /\ last.was = "pending"
    /\ \E p \in DOMAIN projects :
         /\ submissions[last.arg[1]].ApprovedProjectID = Some(p)
         /\ submissions[last.arg[1]].PublishedAt = Some(last.at)
         /\ TeamOf(MembersOf(DB, p)) = WithEmptyPhoto(<<Alex, Sarah>>)

\* the projects created for a submission
ProjectsOf(id) == {p \in DOMAIN projects : projects[p].SubmissionID = Some(id)}

\* C3: over any sequence of Review calls run one after another, at most one
\* project exists for a submission, no project ever disappears, and published-at
\* and the project reference, once set, keep their values
C3_OnePromotion ==
    [][ \A id \in DOMAIN submissions :
          /\ Cardinality(ProjectsOf(id)') <= 1
          /\ ProjectsOf(id) \subseteq ProjectsOf(id)'
          /\ submissions[id].PublishedAt # Nil
               => submissions'[id].PublishedAt = submissions[id].PublishedAt
          /\ submissions[id].ApprovedProjectID # Nil
               => submissions'[id].ApprovedProjectID = submissions[id].ApprovedProjectID
          /\ submissions'[id].PublishedAt # Nil
               => /\ submissions'[id].ApprovedProjectID # Nil
                  /\ ProjectsOf(id)' = {submissions'[id].ApprovedProjectID[1]} ]_vars

\* approved, then rejected, then approved again one millisecond later: one
\* project, and published-at still holds the time of the first approval
C3_Witness ==
    /\ last.op = "Review" /\ last.err = ErrNone
    /\ last.arg[2] = "approved" /\ last.was = "rejected" /\ last.at = 1
    /\ submissions[last.arg[1]].PublishedAt = Some(0)
    /\ submissions[last.arg[1]].ReviewedAt = Some(1)
    /\ Cardinality(ProjectsOf(last.arg[1])) = 1

\* C7: review-started-at is stamped by the first Review with status
\* under_review, with the time of that call, and no later step changes it: a
\* second under_review and a Review with any other status leave it as it was
C7_ReviewStartedOnce ==
    [][ \A id \in DOMAIN submissions :
          /\ submissions[id].ReviewStartedAt # Nil
               => submissions'[id].ReviewStartedAt = submissions[id].ReviewStartedAt
          /\ ( IsReview(id, "under_review") /\ last'.err = ErrNone
               /\ submissions[id].ReviewStartedAt = Nil )
               => submissions'[id].ReviewStartedAt = Some(clock)
          /\ ~(IsReview(id, "under_review") /\ last'.err = ErrNone)
               => submissions'[id].ReviewStartedAt = submissions[id].ReviewStartedAt ]_vars

\* under_review at millisecond 0 and again at millisecond 1: review-started-at
\* is still 0
C7_Witness ==
    /\ last.op = "Review" /\ last.err = ErrNone
    /\ last.arg[2] = "under_review" /\ last.was = "under_review" /\ last.at = 1
    /\ submissions[last.arg[1]].ReviewStartedAt = Some(0)

\* C8: every successful Review with status approved, rejected or
\* requires_changes sets reviewed-at to the time of the call, also when it was
\* set before; a Review with status under_review or pending leaves it unchanged
C8_ReviewedAtRestamped ==
    [][ \A id \in DOMAIN submissions :
          /\ \A status \in {"approved", "rejected", "requires_changes"} :
               IsReview(id, status) /\ last'.err = ErrNone
               => submissions'[id].ReviewedAt = Some(clock)
          /\ \A status \in {"under_review", "pending"} :
               IsReview(id, status)
               => submissions'[id].ReviewedAt = submissions[id].ReviewedAt ]_vars

\* approved at millisecond 0 and rejected at millisecond 1: reviewed-at is 1
C8_Witness ==
    /\ last.op = "Review" /\ last.err = ErrNone
    /\ last.arg[2] = "rejected" /\ last.was = "approved" /\ last.at = 1
    /\ submissions[last.arg[1]].PublishedAt = Some(0)
    /\ submissions[last.arg[1]].ReviewedAt = Some(1)

\* C4: a valid Submit whose project name is the name of a stored project fails
\* with DUPLICATE_PROJECT_NAME, also when a submission of that name is stored;
\* a valid Submit whose project name is that of a stored submission of any
\* status, with no project of that name, fails with DUPLICATE_SUBMISSION; in
\* both cases nothing is returned and every table is unchanged
C4_DuplicateRejected ==
    [][ ( IsCall("Submit") /\ validateSubmissionRequest(last'.arg[1]) = ErrNone )
        => /\ ProjectNamed(last'.arg[1].ProjectName)
                => /\ last'.err = ErrDuplicateProjectName
                   /\ last'.id = Nil
                   /\ UNCHANGED store
           /\ ( SubmissionNamed(last'.arg[1].ProjectName)
                /\ ~ProjectNamed(last'.arg[1].ProjectName) )
                => /\ last'.err = ErrDuplicateSubmission
                   /\ last'.id = Nil
                   /\ UNCHANGED store ]_vars

\* a Submit has answered DUPLICATE_PROJECT_NAME while a project and a rejected
\* submission of that name are stored
C4_Witness ==
    /\ last.op = "Submit" /\ last.err = ErrDuplicateProjectName
    /\ ProjectNamed(last.arg[1].ProjectName)
    /\ \E id \in DOMAIN submissions :
         /\ submissions[id].ProjectName = last.arg[1].ProjectName
         /\ submissions[id].Status = "rejected"

\* C5: with Submit operations run one at a time, no two stored submissions
\* have the same project name
C5_UniqueSubmissionNames ==
    \A a, b \in DOMAIN submissions :
        submissions[a].ProjectName = submissions[b].ProjectName => a = b

\* two submissions are stored and a third Submit, of a stored name, has been
\* turned away
C5_Witness ==
    /\ Cardinality(DOMAIN submissions) = 2
    /\ last.op = "Submit" /\ last.err = ErrDuplicateSubmission

\* C6: a Submit with a category outside the fixed vocabulary fails with
\* INVALID_CATEGORIES; otherwise one with an event outside the fixed list fails
\* with INVALID_EVENT; otherwise one with a team member without name or handle
\* fails with INVALID_TEAM_MEMBERS; this holds whether or not the name is
\* taken, and nothing is stored on a validation error
C6_ValidationOrder ==
    [][ IsCall("Submit") =>
        LET req == last'.arg[1]
            badCategory ==
                \E i \in 1..Len(req.Categories) :
                    req.Categories[i] \notin
                        {"DeFi", "Gaming", "AI", "Infrastructure", "Consumer", "NFT",
                         "Stablecoins"}
            badEvent ==
                req.Event \notin
                    {"Mission: 1 Crazy Contract", "Mission: 2 Smart Wallet",
                     "Mission: 3 DeFi Integration", "Mission: 4 NFT Marketplace",
                     "Hackathon 2023", "Hackathon 2024"}
            badMember ==
                \E i \in 1..Len(req.TeamMembers) :
                    req.TeamMembers[i].Name = "" \/ req.TeamMembers[i].Twitter = ""
        IN  /\ badCategory => last'.err = ErrInvalidCategories
            /\ ~badCategory /\ badEvent => last'.err = ErrInvalidEvent
            /\ ~badCategory /\ ~badEvent /\ badMember
                 => last'.err = ErrInvalidTeamMembers
            /\ badCategory \/ badEvent \/ badMember
                 => last'.id = Nil /\ UNCHANGED store
            /\ last'.err \in {ErrInvalidCategories, ErrInvalidEvent, ErrInvalidTeamMembers}
                 => badCategory \/ badEvent \/ badMember ]_vars

\* a request that breaks all three rules and carries a stored name has been
\* answered with INVALID_CATEGORIES
C6_Witness ==
    /\ last.op = "Submit" /\ last.err = ErrInvalidCategories
    /\ last.arg[1].Event = "Hackathon 2025"
    /\ last.arg[1].TeamMembers[1].Name = ""
    /\ SubmissionNamed(last.arg[1].ProjectName)
    /\ ProjectNamed(last.arg[1].ProjectName)

\* C9: a Review on an identifier that no stored submission has fails with the
\* not-found error, creates no project and changes no table
C9_UnknownReviewNotFound ==
    [][ IsCall("Review") /\ last'.arg[1] \notin DOMAIN submissions
        => last'.err = ErrRecordNotFound /\ UNCHANGED store ]_vars

\* a Review of an unknown identifier has been answered not-found while a
\* submission and a project are stored
C9_Witness ==
    /\ last.op = "Review" /\ last.err = ErrRecordNotFound
    /\ last.arg[1] \notin DOMAIN submissions
    /\ submissions # EmptyTable /\ projects # EmptyTable

\* C10: a Review with status approved that runs the promotion and returns an
\* error leaves the stored submission exactly as it was; a malformed
\* team-member payload makes it return an error and no project or team member
\* is created
C10_FailedPromotionKeepsSubmission ==
    [][ \A id \in DOMAIN submissions :
          ( /\ IsReview(id, "approved")
            /\ submissions[id].Status # "approved"
            /\ submissions[id].ApprovedProjectID = Nil )
          => /\ last'.err # ErrNone => submissions' = submissions
             /\ submissions[id].TeamMembers = LegacySubmission.TeamMembers
                  => /\ last'.err # ErrNone
                     /\ UNCHANGED store ]_vars

\* an approval of the submission with the malformed payload has failed, after
\* that submission had been put under review
C10_Witness ==
    /\ last.op = "Review" /\ last.err = ErrUnmarshal
    /\ last.arg[2] = "approved" /\ last.was = "under_review"
    /\ submissions[last.arg[1]].Status = "under_review"
    /\ submissions[last.arg[1]].ReviewedAt = Nil

\* C11: promotion writes the project and its team members all-or-nothing:
\* after every Review call has returned, with success or with an error, every
\* project created from a submission with at least one team-member entry has
\* its team members
C11_PromotionAllOrNothing ==
    \A p \in DOMAIN projects, id \in DOMAIN submissions :
        ( /\ projects[p].SubmissionID = Some(id)
          /\ JSONUnmarshal(submissions[id].TeamMembers).err = ErrNone
          /\ Len(JSONUnmarshal(submissions[id].TeamMembers).val) > 0 )
        => Len(MembersOf(DB, p)) = Len(JSONUnmarshal(submissions[id].TeamMembers).val)

\* C12: with LikeProject calls on a project running at the same time in any
\* interleaving, the like counter of the project is at every moment the
\* number of calls on it that have returned with success, so that when the N
\* calls have all returned it is exactly N higher than at the start
C12_NoLikeLost ==
    \A p \in DOMAIN projects : projects[p].Likes = acks[p]

\* after two calls on a project have returned, two more calls on it have both
\* passed the lookup and neither has incremented yet
C12_Witness ==
    \E p \in DOMAIN projects :
        /\ acks[p] = 2 /\ projects[p].Likes = 2
        /\ \A w \in {1, 2} : calls[w].op = "LikeProject" /\ calls[w].id = p

\* C13: UpdateExtras on a stored submission without a linked project fails with
\* the project-not-found error and changes no submission, project or team
\* member
C13_ExtrasNeedProject ==
    [][ ( /\ IsCall("UpdateExtras")
          /\ last'.arg[1] \in DOMAIN submissions
          /\ submissions[last'.arg[1]].ApprovedProjectID = Nil )
        => last'.err = ErrProjectNotFound /\ UNCHANGED store ]_vars

\* UpdateExtras with an award and a photo has been refused for the pending
\* submission while another submission has its project
C13_Witness ==
    /\ last.op = "UpdateExtras" /\ last.err = ErrProjectNotFound
    /\ last.arg[1] \in DOMAIN submissions
    /\ submissions[last.arg[1]].Status = "pending"
    /\ last.arg[2] = Some("Winner") /\ Len(last.arg[3]) > 0
    /\ projects # EmptyTable

\* the team_members rows of a project
MemberIDs(p) == {m \in DOMAIN teamMembers : teamMembers[m].ProjectID = p}

\* a successful UpdateExtras step on the project p changes, at most, the award
\* of p and the photos of its team members
ExtrasFrame(p) ==
    /\ submissions' = submissions
    /\ DOMAIN projects' = DOMAIN projects
    /\ \A q \in DOMAIN projects \ {p} : projects'[q] = projects[q]
    /\ [projects'[p] EXCEPT !.Award = projects[p].Award] = projects[p]
    /\ projects'[p].Award =
          IF last'.arg[2] # Nil THEN last'.arg[2][1] ELSE projects[p].Award
    /\ DOMAIN teamMembers' = DOMAIN teamMembers
    /\ \A m \in DOMAIN teamMembers :
          /\ [teamMembers'[m] EXCEPT !.Image = teamMembers[m].Image] = teamMembers[m]
          /\ m \notin MemberIDs(p) => teamMembers'[m] = teamMembers[m]

\* the step is a successful UpdateExtras on a submission with a linked project
IsExtrasOn(p) ==
    /\ IsCall("UpdateExtras") /\ last'.err = ErrNone
    /\ last'.arg[1] \in DOMAIN submissions
    /\ submissions[last'.arg[1]].ApprovedProjectID = Some(p)

\* C14 (as stated): a successful UpdateExtras on a submission with a linked
\* project changes only that project: the award becomes the given one when one is given; every
\* team member whose name is the memberName of an entry gets the photo URL of
\* that entry; members matched by no entry keep their photo; the other fields
\* of the project, every other project and the submission are unchanged
C14_ExtrasAsStated ==
    [][ \A p \in DOMAIN projects :
          IsExtrasOn(p) =>
            /\ ExtrasFrame(p)
            /\ \A m \in MemberIDs(p) :
                 LET entries == {i \in 1..Len(last'.arg[3]) :
                                    /\ "memberName" \in DOMAIN last'.arg[3][i]
                                    /\ last'.arg[3][i]["memberName"] = teamMembers[m].Name}
                 IN  /\ \A i \in entries :
                          "photoUrl" \in DOMAIN last'.arg[3][i]
                          => teamMembers'[m].Image = last'.arg[3][i]["photoUrl"]
                     /\ entries = {} => teamMembers'[m].Image = teamMembers[m].Image ]_vars

\* C14 (amended): a successful UpdateExtras on a submission with a linked
\* project changes only that project: the award becomes the given one when one
\* is given; every team member whose name is the memberName of an entry with a
\* non-empty photo URL gets the photo URL of the last such entry; members with
\* no such entry keep their photo; the other fields of the project, every
\* other project and the submission are unchanged
C14_ExtrasLastNonEmptyWins ==
    [][ \A p \in DOMAIN projects :
          IsExtrasOn(p) =>
            /\ ExtrasFrame(p)
            /\ \A m \in MemberIDs(p) :
                 LET entries == {i \in 1..Len(last'.arg[3]) :
                                    /\ "memberName" \in DOMAIN last'.arg[3][i]
                                    /\ "photoUrl" \in DOMAIN last'.arg[3][i]
                                    /\ last'.arg[3][i]["photoUrl"] # ""
                                    /\ last'.arg[3][i]["memberName"] = teamMembers[m].Name}
                     final == CHOOSE i \in entries : \A j \in entries : j <= i
                 IN  teamMembers'[m].Image =
                        IF entries = {} THEN teamMembers[m].Image
                        ELSE last'.arg[3][final]["photoUrl"] ]_vars

\* the project has likes and an award, Alex has a photo, and an UpdateExtras
\* with two entries for Sarah and no award has left Sarah with the later URL
C14_Witness ==
    /\ last.op = "UpdateExtras" /\ last.err = ErrNone
    /\ last.arg[2] = Nil
    /\ last.arg[3] = <<Photo("Sarah", "https://x/a.png"), Photo("Sarah", "https://x/b.png")>>
    /\ \E p \in DOMAIN projects :
         /\ submissions[last.arg[1]].ApprovedProjectID = Some(p)
         /\ projects[p].Award = "Winner" /\ projects[p].Likes = 2
         /\ TeamOf(MembersOf(DB, p))
              = << [Name |-> "Alex", Twitter |-> "alex_dev", Image |-> "https://x/b.png"],
                   [Name |-> "Sarah", Twitter |-> "sarah_blockchain",
                    Image |-> "https://x/b.png"] >>

\* the string has exactly two hyphens, SUB before the first, at least minimum
\* units between the two and exactly six units after the second, where wide
\* counts the units of a character beyond the first
HasIdentifierForm(s, wide) ==
    \E i, j \in 1..Len(s) :
        /\ i < j /\ s[i] = "-" /\ s[j] = "-"
        /\ \A k \in 1..Len(s) : s[k] = "-" => k \in {i, j}
        /\ SubSeq(s, 1, i - 1) = <<"S", "U", "B">>
        /\ (j - i - 1) + wide * Cardinality({k \in (i + 1)..(j - 1) : s[k] = "<C3A9>"}) >= 10
        /\ (Len(s) - j) + wide * Cardinality({k \in (j + 1)..Len(s) : s[k] = "<C3A9>"}) = 6

\* the identifier returned by a successful Submit is SUB-, thirteen digits, a
\* hyphen and six characters of A-Z0-9, and the validator accepts it
GeneratedIsAccepted ==
    IsCall("Submit") /\ last'.err = ErrNone
    => /\ ValidateSubmissionID(last'.id)
       /\ Len(last'.id) = 24
       /\ SubSeq(last'.id, 1, 4) = <<"S", "U", "B", "-">>
       /\ \A k \in 5..17 : last'.id[k] \in {"0", "1", "2", "3", "4", "5", "6", "7", "8", "9"}
       /\ last'.id[18] = "-"
       /\ \A k \in 19..24 : \E c \in 1..Len(charset) : last'.id[k] = charset[c]

IsReviewSubmission == last'.op = "ReviewSubmission" /\ clock' = clock

\* C16: every stored submission has one of the five statuses in every state
\* reached through Submit and the review endpoint: Submit stores pending, and
\* a review whose status is not one of the five is rejected and changes no
\* submission
C16_StatusAlwaysOneOfFive ==
    /\ [](\A s \in DOMAIN submissions :
            submissions[s].Status \in {"pending", "under_review", "approved", "rejected",
                                       "requires_changes"})
    /\ [][ /\ IsCall("Submit") /\ last'.err = ErrNone
              => submissions'[last'.id].Status = "pending"
           /\ ( /\ IsReviewSubmission
                /\ last'.arg[2].status \notin {"pending", "under_review", "approved",
                                               "rejected", "requires_changes"} )
              => last'.err # ErrNone /\ submissions' = submissions ]_vars

\* a review with status archived on an approved submission has been rejected
C16_Witness ==
    /\ last.op = "ReviewSubmission" /\ last.err = ErrInvalidReviewData
    /\ last.arg[2].status = "archived" /\ last.arg[2].reviewerId # 0
    /\ last.arg[1] \in DOMAIN submissions
    /\ submissions[last.arg[1]].Status = "approved"

\* C17: a review of a stored submission with one of the five statuses and a
\* reviewer succeeds whatever the stored status is, and leaves the submission
\* with the status, feedback, list of requested changes and reviewer of the
\* request, also when the request has no feedback and no changes
C17_ReviewOverwrites ==
    [][ ( /\ IsReviewSubmission
          /\ last'.arg[1] \in DOMAIN submissions
          /\ last'.arg[2].status \in {"pending", "under_review", "approved", "rejected",
                                      "requires_changes"}
          /\ last'.arg[2].reviewerId # 0 )
        => /\ last'.err = ErrNone
           /\ last'.was = submissions[last'.arg[1]].Status
           /\ DOMAIN submissions' = DOMAIN submissions
           /\ submissions'[last'.arg[1]].Status = last'.arg[2].status
           /\ submissions'[last'.arg[1]].Feedback = last'.arg[2].feedback
           /\ submissions'[last'.arg[1]].ChangesRequested = last'.arg[2].changesRequested
           /\ submissions'[last'.arg[1]].ReviewerID = Some(last'.arg[2].reviewerId) ]_vars

\* an approved and published submission has been set back to pending by a
\* review without feedback
C17_Witness ==
    /\ last.op = "ReviewSubmission" /\ last.err = ErrNone
    /\ last.was = "approved" /\ last.arg[2].status = "pending"
    /\ last.arg[2].feedback = Nil /\ last.arg[2].changesRequested = <<>>
    /\ submissions[last.arg[1]].Status = "pending"
    /\ submissions[last.arg[1]].Feedback = Nil
    /\ submissions[last.arg[1]].PublishedAt # Nil

\* C18: two concurrent Submit calls with the same unused project name can both
\* succeed. The insert of a call that has passed both lookups does not look at
\* the names again: it succeeds whenever its identifier is unused, also when
\* another call has stored a submission with the same name in between; the
\* state in which two stored submissions carry one name is C18_Witness
C18_InsertIgnoresNames ==
    [][ \A w \in Workers :
          ( /\ calls[w].op = "Submit" /\ calls[w].pc = "CreateSubmission"
            /\ calls'[w] = Idle
            /\ last'.gen \notin DOMAIN submissions )
          => /\ last'.err = ErrNone /\ last'.id = last'.gen
             /\ DOMAIN submissions' = DOMAIN submissions \cup {last'.gen}
             /\ submissions'[last'.gen].ProjectName = calls[w].req.ProjectName
             /\ \A s \in DOMAIN submissions : submissions'[s] = submissions[s] ]_vars

\* both calls have returned with success: two submissions with different
\* identifiers carry the name MonadSwap, and no project has that name
C18_Witness ==
    /\ \E s, t \in DOMAIN submissions :
          /\ s # t
          /\ submissions[s].ProjectName = "MonadSwap"
          /\ submissions[t].ProjectName = "MonadSwap"
    /\ \A p \in DOMAIN projects : projects[p].Name # "MonadSwap"
    /\ \A w \in Workers : calls[w] = Idle
    /\ last.op = "Submit" /\ last.err = ErrNone

\* C19: under every interleaving of the steps of concurrent reviews of one
\* submission, at most one project refers back to the submission and at most
\* one project has its name, in every state
C19_AtMostOnePromotion ==
    \A s \in DOMAIN submissions :
        /\ Cardinality({p \in DOMAIN projects : projects[p].SubmissionID = Some(s)}) <= 1
        /\ Cardinality({p \in DOMAIN projects :
                           projects[p].Name = submissions[s].ProjectName}) <= 1

\* an approval that read the submission before the other approval created the
\* project has had its own insert rejected: one project, two attempts
C19_Witness ==
    /\ last.op = "Review" /\ last.err = ErrDuplicateKey /\ last.arg[2] = "approved"
    /\ projectSeq = 2
    /\ Cardinality({p \in DOMAIN projects : projects[p].SubmissionID = Some(last.arg[1])}) = 1

\* C20: under every interleaving of the steps of concurrent reviews of one
\* submission, a stored project reference and a stored published-at are never
\* cleared or changed
C20_ReferenceSetOnce ==
    [][ \A s \in DOMAIN submissions :
          /\ submissions[s].ApprovedProjectID # Nil
             => submissions'[s].ApprovedProjectID = submissions[s].ApprovedProjectID
          /\ submissions[s].PublishedAt # Nil
             => submissions'[s].PublishedAt = submissions[s].PublishedAt ]_vars

\* C21: in every state after a Review has returned, with success or with an
\* error of a store call, every project created by promotion is the project
\* that the project reference of its submission points to
C21_ProjectLinkedBack ==
    \A p \in DOMAIN projects :
        projects[p].SubmissionID # Nil
        => /\ projects[p].SubmissionID[1] \in DOMAIN submissions
           /\ submissions[projects[p].SubmissionID[1]].ApprovedProjectID = Some(p)

\* C22: after a Review with status approved has failed during promotion, a
\* Review with status approved on the same submission that runs without a
\* failing store call succeeds, links a project to the submission and stamps
\* published-at
C22_FailedPromotionRetried ==
    [][ \A s \in DOMAIN submissions :
          LET in == last'.arg[3]
              r == UpdateSubmissionStatus(DB, clock, s, "approved", in.Feedback,
                                          in.ChangesRequested, in.ReviewerID, "none")
          IN  ( /\ last.op = "Review" /\ last.arg[1] = s /\ last.arg[2] = "approved"
                /\ last.err # ErrNone
                /\ submissions[s].ApprovedProjectID = Nil
                /\ IsCall("Review") /\ last'.arg[1] = s /\ last'.arg[2] = "approved"
                /\ last'.err = r.err /\ DB' = r.db )
              => /\ last'.err = ErrNone
                 /\ submissions'[s].ApprovedProjectID # Nil
                 /\ submissions'[s].PublishedAt # Nil ]_vars

\* C23: the like counter of a stored project never decreases, also when
\* LikeProject interleaves with UpdateExtras or with the team-member write of
\* a promotion
C23_LikesNeverDecrease ==
    [][ \A p \in DOMAIN projects :
          p \in DOMAIN projects' /\ projects'[p].Likes >= projects[p].Likes ]_vars

\* the entries of the team-photo list of the call for the name of member m
\* that carry a photo URL, by position
EntriesFor(m) ==
    {i \in 1..Len(last'.arg[3]) :
        /\ "memberName" \in DOMAIN last'.arg[3][i]
        /\ "photoUrl" \in DOMAIN last'.arg[3][i]
        /\ last'.arg[3][i]["memberName"] = teamMembers[m].Name}

\* C24 (as stated): when the team-photo list has several entries with the name
\* of a team member, the member's photo becomes the photo URL of the last of
\* them, whatever that URL is
C24_LastDuplicateWins ==
    [][ \A p \in DOMAIN projects :
          IsExtrasOn(p) =>
            \A m \in MemberIDs(p) :
               Cardinality(EntriesFor(m)) >= 2
               => teamMembers'[m].Image =
                     last'.arg[3][CHOOSE i \in EntriesFor(m) :
                                     \A j \in EntriesFor(m) : j <= i]["photoUrl"] ]_vars

\* C24 (amended): when the team-photo list has several entries with the name
\* of a team member, the member's photo becomes the photo URL of the last of
\* them whose URL is not empty, and stays as it was when all are empty
C24_LastNonEmptyDuplicateWins ==
    [][ \A p \in DOMAIN projects :
          IsExtrasOn(p) =>
            \A m \in MemberIDs(p) :
               LET filled == {i \in EntriesFor(m) : last'.arg[3][i]["photoUrl"] # ""}
               IN  Cardinality(EntriesFor(m)) >= 2
                   => teamMembers'[m].Image =
                         IF filled = {} THEN teamMembers[m].Image
                         ELSE last'.arg[3][CHOOSE i \in filled :
                                              \A j \in filled : j <= i]["photoUrl"] ]_vars

\* Sarah had the photo b.png; two entries for Sarah, the second with an empty
\* URL, have left her with the URL of the first
C24_Witness ==
    /\ last.op = "UpdateExtras" /\ last.err = ErrNone
    /\ last.arg[3] = <<Photo("Sarah", "https://x/a.png"), Photo("Sarah", "")>>
    /\ \E m \in DOMAIN teamMembers :
          teamMembers[m].Name = "Sarah" /\ teamMembers[m].Image = "https://x/a.png"

\* C25: under every sequence of Submit, Review, UpdateExtras and LikeProject a
\* stored submission is never removed and its identifier, project name,
\* team-member payload, categories, event and submitted-at never change; a
\* stored submission changes only in a Review of that submission
C25_SubmissionFrame ==
    [][ \A s \in DOMAIN submissions :
          /\ s \in DOMAIN submissions'
          /\ submissions'[s].ID = submissions[s].ID
          /\ submissions'[s].ID = s
          /\ submissions'[s].ProjectName = submissions[s].ProjectName
          /\ submissions'[s].TeamMembers = submissions[s].TeamMembers
          /\ submissions'[s].Categories = submissions[s].Categories
          /\ submissions'[s].Event = submissions[s].Event
          /\ submissions'[s].SubmittedAt = submissions[s].SubmittedAt
          /\ submissions'[s] # submissions[s]
             => IsCall("Review") /\ last'.arg[1] = s /\ last'.err = ErrNone ]_vars

\* a submission of millisecond 0 has been approved, its project has an award
\* and a like, and it has been rejected at millisecond 1
C25_Witness ==
    /\ last.op = "Review" /\ last.err = ErrNone /\ last.arg[2] = "rejected"
    /\ last.arg[1] \in DOMAIN submissions
    /\ LET s == submissions[last.arg[1]]
       IN  /\ s.SubmittedAt = 0 /\ s.ReviewedAt = Some(1) /\ s.Status = "rejected"
           /\ s.ProjectName = "MonadSwap"
           /\ s.ApprovedProjectID # Nil
           /\ projects[s.ApprovedProjectID[1]].Award = "Winner"
           /\ projects[s.ApprovedProjectID[1]].Likes >= 1

\* C26: stored submission identifiers are pairwise distinct: every row is
\* stored under its own identifier, a successful Submit adds one row under an
\* identifier no stored row had and leaves the stored rows as they were, and a
\* Submit whose generated identifier a stored submission already has fails
\* and changes no submission
C26_IdentifiersDistinct ==
    [][ /\ \A s \in DOMAIN submissions' : submissions'[s].ID = s
        /\ ( IsCall("Submit") /\ last'.gen # Nil /\ last'.gen \in DOMAIN submissions )
           => last'.err # ErrNone /\ submissions' = submissions
        /\ ( IsCall("Submit") /\ last'.err = ErrNone )
           => /\ last'.id \notin DOMAIN submissions
              /\ DOMAIN submissions' = DOMAIN submissions \cup {last'.id}
              /\ \A s \in DOMAIN submissions : submissions'[s] = submissions[s] ]_vars

\* a Submit of MonadPay has generated the identifier of the stored MonadSwap
\* and has failed on the primary key
C26_Witness ==
    /\ last.op = "Submit" /\ last.err = ErrDuplicateKey
    /\ last.arg[1].ProjectName = "MonadPay"
    /\ last.gen \in DOMAIN submissions
    /\ submissions[last.gen].ProjectName = "MonadSwap"
    /\ \A s \in DOMAIN submissions : submissions[s].ProjectName # "MonadPay"

\* C27: in every state, under every interleaving of Review calls, a stored
\* submission has published-at set exactly when it has a project reference
C27_PublishedIffLinked ==
    \A s \in DOMAIN submissions :
        submissions[s].PublishedAt # Nil <=> submissions[s].ApprovedProjectID # Nil

\* the submission is published and linked while another Review that read it
\* unpublished is about to save it
C27_Witness ==
    \E s \in DOMAIN submissions, w \in Workers :
        /\ submissions[s].PublishedAt # Nil /\ submissions[s].ApprovedProjectID # Nil
        /\ calls[w].op = "Review" /\ calls[w].pc = "UpdateSubmission"
        /\ calls[w].submission.ID = s
        /\ calls[w].submission.ApprovedProjectID = Nil

\* C28: in every state every stored submission with status approved has a
\* project reference; a submission with a project reference need not be
\* approved
C28_ApprovedIsLinked ==
    \A s \in DOMAIN submissions :
        submissions[s].Status = "approved" => submissions[s].ApprovedProjectID # Nil

\* a rejected submission that was approved before has been approved again:
\* it is approved and keeps the project reference of the first approval
C28_Witness ==
    /\ last.op = "Review" /\ last.err = ErrNone
    /\ last.arg[2] = "approved" /\ last.was = "rejected"
    /\ last.arg[1] \in DOMAIN submissions
    /\ submissions[last.arg[1]].Status = "approved"
    /\ submissions[last.arg[1]].ApprovedProjectID = Some(1)
    /\ projectSeq = 1

\* C29: the project reference of a submission is never dangling: in every
\* state a set reference names a stored project whose back-reference is the
\* identifier of the submission, and no Review, UpdateExtras or LikeProject
\* removes a stored project or changes its back-reference
C29_ReferenceNeverDangling ==
    /\ [](\A s \in DOMAIN submissions :
            submissions[s].ApprovedProjectID # Nil
            => /\ submissions[s].ApprovedProjectID[1] \in DOMAIN projects
               /\ projects[submissions[s].ApprovedProjectID[1]].SubmissionID = Some(s))
    /\ [][ \A p \in DOMAIN projects :
             /\ p \in DOMAIN projects'
             /\ projects'[p].SubmissionID = projects[p].SubmissionID ]_vars

\* the submission was approved and then rejected; an UpdateExtras has since
\* written its project, which is still the one the reference names
C29_Witness ==
    /\ last.op = "UpdateExtras" /\ last.err = ErrNone
    /\ last.arg[1] \in DOMAIN submissions
    /\ submissions[last.arg[1]].Status = "rejected"
    /\ submissions[last.arg[1]].ApprovedProjectID = Some(1)
    /\ projects[1].SubmissionID = Some(last.arg[1])
    /\ projects[1].Award = "Winner"

\* the requests of the client admitted so far that are younger than one
\* minute (two clock steps) at time now
Young(clientID, now) ==
    Cardinality({i \in 1..Len(admitted[clientID]) : now - admitted[clientID][i] < 2})

\* C30: for each client the rate limiter admits at most limit requests in any
\* window of one minute, under every interleaving of concurrent allow calls: a
\* request is admitted exactly when fewer than limit admitted requests of the
\* same client are younger than one minute, a refused request is not
\* recorded, and no step of a call changes what is recorded for another
\* client
C30_SlidingWindow ==
    /\ [](\A c \in ClientIPs, t \in 0..(MaxTime + 1) :
            Cardinality({i \in 1..Len(admitted[c]) :
                            t <= admitted[c][i] /\ admitted[c][i] < t + 2}) <= limit)
    /\ [][ \A w \in Workers :
             calls[w].op = "allow" =>
               /\ \A d \in ClientIPs \ {calls[w].clientID} :
                     /\ admitted'[d] = admitted[d]
                     /\ d \in DOMAIN clients' <=> d \in DOMAIN clients
                     /\ d \in DOMAIN clients => clients'[d] = clients[d]
               /\ calls'[w] = Idle =>
                    /\ last'.arg = <<calls[w].clientID>> /\ last'.at = calls[w].now
                    /\ last'.err = ErrNone
                       <=> Young(calls[w].clientID, calls[w].now) < limit
                    /\ last'.err = ErrNone
                       => /\ admitted'[calls[w].clientID]
                               = Append(admitted[calls[w].clientID], calls[w].now)
                          /\ clients'[calls[w].clientID]
                               = Append(Recorded(calls[w].clientID), calls[w].now)
                    /\ last'.err # ErrNone
                       => /\ last'.err = ErrRateLimited
                          /\ admitted' = admitted /\ clients' = clients ]_vars

\* a client has had two requests admitted, a third admitted after the first
\* had left the window, and a request refused while the other client's
\* request of the same half minute was admitted
C30_Witness ==
    /\ last.op = "allow" /\ last.err = ErrRateLimited
    /\ last.arg = <<"10.0.0.1">>
    /\ Len(admitted["10.0.0.1"]) = 3
    /\ Len(admitted["10.0.0.2"]) >= 1
    /\ admitted["10.0.0.2"][Len(admitted["10.0.0.2"])] = last.at
    /\ \E w \in Workers : calls[w].op = "allow"

====
